---- MODULE Spec2Model ----
(***************************************************************************)
(* Verification model of the embedding-ingestion core of show-me-ai:       *)
(*   - Database.get_embeddable_bill_documents   (ingestion/db_utils.py)    *)
(*   - chunk_by_sentences, chunk_by_sections, chunk_document               *)
(*                                     (ingestion/embeddings/chunking.py)  *)
(* The functions are pure; each specification draws the inputs of one      *)
(* function in its initial states and one action applies the function.     *)
(***************************************************************************)
EXTENDS Integers, Sequences, FiniteSets, TLC

VARIABLES
    pc,               \* "input"/"loop" while a call runs, "done" after it returned
    all_docs,         \* get_bill_documents(bill_id): the bill's document rows
    result,           \* return value of get_embeddable_bill_documents
    sentences,        \* chunk_by_sentences: token count of each sentence
    sections,         \* chunk_by_sections: the segments, [blank, tok] each
    target_tokens,    \* target_tokens argument
    overlap_tokens,   \* overlap_tokens argument
    idx,              \* position of the chunker's for loop (1-based)
    current_chunk,    \* the chunker's accumulator (indices of its elements)
    current_tokens,   \* the chunker's running token total
    current_seed,     \* overlap_sentences the accumulator was started from
    chunks,           \* emitted chunks, each the indices of its elements
    seeds,            \* chunk_by_sentences: overlap seed of each emitted chunk
    text,             \* chunk_document: the text argument
    doc_chunks,       \* chunk_document: returned chunk strings
    doc_type,         \* chunk_document: returned document-type tag
    clean_text,       \* clean_legislative_text(text)
    reclean_text,     \* clean_legislative_text(clean_text)
    creds,            \* which credentials the environment provides
    bills,            \* process_session: get_bills_for_session(...)
    bi,               \* process_session: position of its for loop (1-based)
    bill_metadata,    \* process_bill: get_bill_metadata_for_embeddings(...)
    documents,        \* process_bill: get_embeddable_bill_documents(...)
    di,               \* process_bill: position of its for loop (1-based)
    bill_embeddings,  \* process_bill: its total_embeddings
    bills_processed,  \* process_session: its bills_processed
    total_embeddings, \* process_session: its total_embeddings
    store,            \* rows of the bill_embeddings vector store
    calls,            \* the calls made to external collaborators, in order
    escaped           \* the call whose exception left process_session

vars == <<pc, all_docs, result, sentences, sections, target_tokens,
          overlap_tokens, idx, current_chunk, current_tokens, current_seed,
          chunks, seeds, text, doc_chunks, doc_type, clean_text,
          reclean_text, creds, bills, bi, bill_metadata, documents, di,
          bill_embeddings, bills_processed, total_embeddings, store, calls,
          escaped>>

selVars  == <<all_docs, result>>
loopVars == <<idx, current_chunk, current_tokens, current_seed, chunks, seeds>>
inVars   == <<sentences, sections>>
docVars  == <<text, doc_chunks, doc_type>>
argVars  == <<target_tokens, overlap_tokens>>
cleanVars == <<clean_text, reclean_text>>
pipeVars == <<creds, bills, bi, bill_metadata, documents, di,
              bill_embeddings, bills_processed, total_embeddings, store,
              calls, escaped>>

\* the variables of the cleaner and of the pipeline while neither runs
CleanIdle == clean_text = <<>> /\ reclean_text = <<>>
PipeIdle ==
    /\ creds = [supabase |-> TRUE, openai |-> TRUE]
    /\ bills = <<>> /\ bi = 1
    /\ bill_metadata = <<>> /\ documents = <<>> /\ di = 1
    /\ bill_embeddings = 0 /\ bills_processed = 0 /\ total_embeddings = 0
    /\ store = <<>> /\ calls = <<>> /\ escaped = "none"

(***************************************************************************)
(* Strings are sequences of one-character strings, so that str.lower(),    *)
(* str.replace() and the substring test `a in b` are computed.             *)
(***************************************************************************)
UpperChars == <<"A","B","C","D","E","F","G","H","I","J","K","L","M",
                "N","O","P","Q","R","S","T","U","V","W","X","Y","Z">>
LowerChars == <<"a","b","c","d","e","f","g","h","i","j","k","l","m",
                "n","o","p","q","r","s","t","u","v","w","x","y","z">>

LowerChar(c) ==
    IF \E i \in 1..26 : UpperChars[i] = c
    THEN LowerChars[CHOOSE i \in 1..26 : UpperChars[i] = c]
    ELSE c

\* str.lower()
Lower(s) == [i \in 1..Len(s) |-> LowerChar(s[i])]

\* str.replace(a, b) for one-character a and b
Replace(s, a, b) == [i \in 1..Len(s) |-> IF s[i] = a THEN b ELSE s[i]]

\* the Python substring test `sub in s`
Contains(sub, s) ==
    \E i \in 0..(Len(s) - Len(sub)) : \A j \in 1..Len(sub) : s[i + j] = sub[j]


Min(S) == CHOOSE x \in S : \A y \in S : x <= y

(***************************************************************************)
(* VersionSelector: Database.get_embeddable_bill_documents                 *)
(***************************************************************************)
MaxDocs == 3

\* document_type labels as the scraper stores them (free text)
T_Introduced == <<"I","n","t","r","o","d","u","c","e","d">>
T_Committee == <<"C","o","m","m","i","t","t","e","e">>
T_Perfected == <<"P","e","r","f","e","c","t","e","d">>
T_TrulyAgreed == <<"T","r","u","l","y"," ","A","g","r","e","e","d">>
T_SenateCommitteeSubstitute == <<"S","e","n","a","t","e"," ","C","o","m","m","i","t","t","e","e"," ","S","u","b","s","t","i","t","u","t","e">>
T_SenateCommSub == <<"S","e","n","a","t","e","_","C","o","m","m","_","S","u","b">>
T_FiscalNote == <<"F","i","s","c","a","l"," ","N","o","t","e">>

DocTypes == <<T_Introduced, T_Committee, T_Perfected, T_TrulyAgreed,
              T_SenateCommitteeSubstitute, T_SenateCommSub, T_FiscalNote>>

\* storage_path values: None (a row whose PDF was never uploaded), a bill
\* PDF, a fiscal-note PDF
P_None == <<>>
P_Pdf == <<"H","B","1","_","x",".","p","d","f">>
P_Org == <<"H","B","1",".","O","R","G",".","p","d","f">>

StoragePaths == <<P_None, P_Pdf, P_Org>>

S_ORG == <<".","O","R","G">>
S_introduced == <<"i","n","t","r","o","d","u","c","e","d">>

\* the `hierarchy` list, most authoritative first
hierarchy == <<
    <<"t","r","u","l","y"," ","a","g","r","e","e","d">>,
    <<"t","r","u","l","y","_","a","g","r","e","e","d">>,
    <<"s","e","n","a","t","e","_","c","o","m","m","_","s","u","b">>,
    <<"s","e","n","a","t","e"," ","c","o","m","m"," ","s","u","b">>,
    <<"s","e","n","a","t","e"," ","c","o","m","m","i","t","t","e","e"," ","s","u","b","s","t","i","t","u","t","e">>,
    <<"p","e","r","f","e","c","t","e","d">>,
    <<"c","o","m","m","i","t","t","e","e">>,
    <<"i","n","t","r","o","d","u","c","e","d">> >>

\* a bill_documents row; id is the row's primary key
Doc(i, t, p) == [id |-> i, document_type |-> t, storage_path |-> p]

\* variant that forgets the fiscal-note test
LegislativeDocs_KeepFiscal(docs) ==
    SelectSeq(docs, LAMBDA d : d.storage_path # <<>>)

\* legislative_docs: rows with a storage path that does not contain '.ORG'
LegislativeDocs(docs) ==
    SelectSeq(docs, LAMBDA d : d.storage_path # <<>>
                               /\ ~Contains(S_ORG, d.storage_path))

\* `introduced`: first legislative row whose lower-cased label contains
\* 'introduced'; <<>> stands for None, <<d>> for the row d
FindIntroduced(ldocs) ==
    LET I == {i \in 1..Len(ldocs) :
                 Contains(S_introduced, Lower(ldocs[i].document_type))}
    IN  IF I = {} THEN <<>> ELSE <<ldocs[Min(I)]>>

\* `most_recent`: for the first hierarchy term that any row matches, the
\* first row whose label, lower-cased and with ' ' replaced by '_',
\* contains the term
FindMostRecent(ldocs) ==
    LET Match(p) == {i \in 1..Len(ldocs) :
                        Contains(hierarchy[p],
                                 Replace(Lower(ldocs[i].document_type), " ", "_"))}
        P == {p \in 1..Len(hierarchy) : Match(p) # {}}
    IN  IF P = {} THEN <<>> ELSE <<ldocs[Min(Match(Min(P)))]>>

\* variant that appends most_recent without comparing it to introduced
get_embeddable_bill_documents_NoDedup(docs) ==
    LET legislative_docs == LegislativeDocs(docs)
        introduced == FindIntroduced(legislative_docs)
        most_recent == FindMostRecent(legislative_docs)
        withRecent == introduced \o most_recent
    IN  IF legislative_docs = <<>> THEN <<>>
        ELSE IF withRecent = <<>> THEN <<legislative_docs[1]>>
        ELSE withRecent

\* variant without the last-resort fallback
get_embeddable_bill_documents_NoFallback(docs) ==
    LET legislative_docs == LegislativeDocs(docs)
        introduced == FindIntroduced(legislative_docs)
        most_recent == FindMostRecent(legislative_docs)
    IN  IF most_recent # <<>> /\ most_recent # introduced
        THEN introduced \o most_recent
        ELSE introduced

get_embeddable_bill_documents(docs) ==
    LET legislative_docs == LegislativeDocs(docs)
        introduced == FindIntroduced(legislative_docs)
        most_recent == FindMostRecent(legislative_docs)
        withRecent == IF most_recent # <<>> /\ most_recent # introduced
                      THEN introduced \o most_recent
                      ELSE introduced
    IN  IF legislative_docs = <<>> THEN <<>>
        ELSE IF withRecent = <<>> THEN <<legislative_docs[1]>>
        ELSE withRecent

\* the documented example: introduced, committee, truly agreed, fiscal note
ExampleFour == <<Doc(1, T_Introduced, P_Pdf), Doc(2, T_Committee, P_Pdf),
                 Doc(3, T_TrulyAgreed, P_Pdf), Doc(4, T_FiscalNote, P_Org)>>

\* the rows of one bill: up to MaxDocs rows of any label and storage path,
\* or the documented example
InitSel ==
    /\ pc = "input"
    /\ \/ \E n \in 0..MaxDocs :
            \E f \in [1..n -> (1..Len(DocTypes)) \X (1..Len(StoragePaths))] :
               all_docs = [i \in 1..n |->
                              Doc(i, DocTypes[f[i][1]], StoragePaths[f[i][2]])]
       \/ all_docs = ExampleFour
    /\ result = <<>>
    /\ sentences = <<>> /\ sections = <<>>
    /\ target_tokens = 0 /\ overlap_tokens = 0
    /\ idx = 1 /\ current_chunk = <<>> /\ current_tokens = 0
    /\ current_seed = <<>> /\ chunks = <<>> /\ seeds = <<>>
    /\ text = <<>> /\ doc_chunks = <<>> /\ doc_type = ""
    /\ CleanIdle /\ PipeIdle

GetEmbeddableBillDocuments ==
    /\ pc = "input"
    /\ result' = get_embeddable_bill_documents(all_docs)
    /\ pc' = "done"
    /\ UNCHANGED <<all_docs, inVars, loopVars, docVars, argVars,
                   cleanVars, pipeVars>>

NextSel == GetEmbeddableBillDocuments

SpecSel == InitSel /\ [][NextSel]_vars


(***************************************************************************)
(* Properties of get_embeddable_bill_documents                             *)
(***************************************************************************)
Range(q) == {q[i] : i \in 1..Len(q)}

\* a row that survives the filter: it has a storage path without '.ORG'
Embeddable(d) == d.storage_path # <<>> /\ ~Contains(S_ORG, d.storage_path)

IsIntroduced(d) == Contains(S_introduced, Lower(d.document_type))

\* positions of the embeddable rows labelled introduced
IntroducedAt == {i \in 1..Len(all_docs) :
                    Embeddable(all_docs[i]) /\ IsIntroduced(all_docs[i])}

\* C1: the result has 0..2 rows, all from the input, none twice; an
\* introduced row among the embeddable ones comes first, and a second row
\* is the most-recent row, different from the first.
C1_SelectorShape ==
    pc = "done" =>
        /\ all_docs = ExampleFour => result = <<ExampleFour[1], ExampleFour[3]>>
        /\ all_docs = <<ExampleFour[1]>> => result = <<ExampleFour[1]>>
        /\ Len(result) \in 0..2
        /\ Range(result) \subseteq Range(all_docs)
        /\ Len(result) = 2 => result[1] # result[2]
        /\ IntroducedAt # {} => /\ result # <<>>
                                /\ result[1] = all_docs[Min(IntroducedAt)]
        /\ LET recent == FindMostRecent(LegislativeDocs(all_docs))
           IN  /\ Len(result) = 2 => /\ IntroducedAt # {}
                                     /\ <<result[2]>> = recent
               /\ (IntroducedAt # {} /\ recent # <<>>
                   /\ recent # <<all_docs[Min(IntroducedAt)]>>)
                  => Len(result) = 2

C1_Witness ==
    /\ pc = "done"
    /\ all_docs = ExampleFour
    /\ result = <<ExampleFour[1], ExampleFour[3]>>

\* authority class of a label, whatever its spelling: 5 truly agreed,
\* 4 senate committee substitute, 3 perfected, 2 committee, 1 introduced
Spaced(label) == Replace(Lower(label), "_", " ")

AuthorityClass(label) ==
    LET l == Spaced(label)
    IN  IF Contains(hierarchy[1], l) THEN 5
        ELSE IF Contains(hierarchy[4], l) \/ Contains(hierarchy[5], l) THEN 4
        ELSE IF Contains(hierarchy[6], l) THEN 3
        ELSE IF Contains(hierarchy[7], l) THEN 2
        ELSE IF Contains(hierarchy[8], l) THEN 1
        ELSE 0

\* C2: the most-recent row belongs to the most authoritative class present
\* among the embeddable rows.
C2_MostRecentIsMostAuthoritative ==
    pc = "done" =>
        LET ldocs == LegislativeDocs(all_docs)
            recent == FindMostRecent(ldocs)
        IN  recent # <<>> =>
              \A i \in 1..Len(ldocs) :
                 AuthorityClass(ldocs[i].document_type)
                    <= AuthorityClass(recent[1].document_type)

MaxSentences == 4
MaxTok == 3
MaxTarget == 3
MaxOverlap == 3

\* the default arguments of the chunkers
DEFAULT_TARGET_TOKENS == 800
DEFAULT_OVERLAP_TOKENS == 100

\* sentence sizes tried against the default arguments
DefaultScaleTokens == {50, 100, 101, 700, 801}

RECURSIVE SumTok(_, _)
SumTok(q, tok) == IF q = <<>> THEN 0 ELSE tok[Head(q)] + SumTok(Tail(q), tok)

LoopState == [chunks |-> chunks, seeds |-> seeds,
              current_chunk |-> current_chunk, current_seed |-> current_seed,
              current_tokens |-> current_tokens]

EmptyLoopState == [chunks |-> <<>>, seeds |-> <<>>, current_chunk |-> <<>>,
                   current_seed |-> <<>>, current_tokens |-> 0]

\* `for s in reversed(current_chunk)`: n sentences are kept so far with
\* overlap_count = count; returns how many trailing sentences are kept
RECURSIVE OverlapWalk(_, _, _, _, _)
OverlapWalk(cur, tok, overlap, n, count) ==
    IF n = Len(cur) THEN n
    ELSE LET s_tokens == tok[cur[Len(cur) - n]]
         IN  IF count + s_tokens <= overlap
             THEN OverlapWalk(cur, tok, overlap, n + 1, count + s_tokens)
             ELSE n

\* variant that keeps a sentence only when it stays strictly below the budget
OverlapSentences_Strict(cur, tok, overlap) ==
    LET n == OverlapWalk(cur, tok, overlap - 1, 0, 0)
    IN  SubSeq(cur, Len(cur) - n + 1, Len(cur))

\* variant that keeps the leading sentences of the chunk instead of the
\* trailing ones
OverlapSentences_FromFront(cur, tok, overlap) ==
    LET n == OverlapWalk(cur, tok, overlap, 0, 0)
    IN  SubSeq(cur, 1, n)

\* overlap_sentences, in original order
OverlapSentences(cur, tok, overlap) ==
    LET n == OverlapWalk(cur, tok, overlap, 0, 0)
    IN  SubSeq(cur, Len(cur) - n + 1, Len(cur))

\* variant that appends the sentence only when no chunk was emitted
SentenceStep_DropOnFlush(st, i, tok, target, overlap) ==
    IF st.current_tokens + tok[i] > target /\ st.current_chunk # <<>>
    THEN LET seed == OverlapSentences(st.current_chunk, tok, overlap)
         IN  [chunks |-> Append(st.chunks, st.current_chunk),
              seeds |-> Append(st.seeds, st.current_seed),
              current_chunk |-> seed, current_seed |-> seed,
              current_tokens |-> SumTok(seed, tok)]
    ELSE [st EXCEPT !.current_chunk = Append(@, i),
                    !.current_tokens = @ + tok[i]]

\* variant that tests the running total before the sentence is added
SentenceStep_LateFlush(st, i, tok, target, overlap) ==
    LET flush == st.current_tokens > target /\ st.current_chunk # <<>>
        seed == OverlapSentences(st.current_chunk, tok, overlap)
        base == IF flush
                THEN [chunks |-> Append(st.chunks, st.current_chunk),
                      seeds |-> Append(st.seeds, st.current_seed),
                      current_chunk |-> seed, current_seed |-> seed,
                      current_tokens |-> SumTok(seed, tok)]
                ELSE st
    IN  [base EXCEPT !.current_chunk = Append(@, i),
                     !.current_tokens = @ + tok[i]]

\* one iteration of `for sentence in sentences`
SentenceStep(st, i, tok, target, overlap) ==
    LET flush == st.current_tokens + tok[i] > target /\ st.current_chunk # <<>>
        seed == OverlapSentences(st.current_chunk, tok, overlap)
        base == IF flush
                THEN [chunks |-> Append(st.chunks, st.current_chunk),
                      seeds |-> Append(st.seeds, st.current_seed),
                      current_chunk |-> seed, current_seed |-> seed,
                      current_tokens |-> SumTok(seed, tok)]
                ELSE st
    IN  [base EXCEPT !.current_chunk = Append(@, i),
                     !.current_tokens = @ + tok[i]]

\* `if current_chunk: chunks.append(...)` after the loop
FinalFlush(st) ==
    IF st.current_chunk # <<>>
    THEN [st EXCEPT !.chunks = Append(@, st.current_chunk),
                    !.seeds = Append(@, st.current_seed)]
    ELSE st

\* re.split always returns at least one sentence
InitSent ==
    /\ pc = "loop"
    /\ \E n \in 1..MaxSentences :
          \/ /\ sentences \in [1..n -> 0..MaxTok]
             /\ target_tokens \in 0..MaxTarget
             /\ overlap_tokens \in 0..MaxOverlap
          \/ /\ sentences \in [1..n -> DefaultScaleTokens]
             /\ target_tokens = DEFAULT_TARGET_TOKENS
             /\ overlap_tokens = DEFAULT_OVERLAP_TOKENS
    /\ sections = <<>>
    /\ idx = 1 /\ current_chunk = <<>> /\ current_tokens = 0
    /\ current_seed = <<>> /\ chunks = <<>> /\ seeds = <<>>
    /\ all_docs = <<>> /\ result = <<>>
    /\ text = <<>> /\ doc_chunks = <<>> /\ doc_type = ""
    /\ CleanIdle /\ PipeIdle

SetLoopState(st) ==
    /\ chunks' = st.chunks
    /\ seeds' = st.seeds
    /\ current_chunk' = st.current_chunk
    /\ current_seed' = st.current_seed
    /\ current_tokens' = st.current_tokens

SentenceLoop ==
    /\ pc = "loop"
    /\ idx <= Len(sentences)
    /\ SetLoopState(SentenceStep(LoopState, idx, sentences,
                                 target_tokens, overlap_tokens))
    /\ idx' = idx + 1
    /\ UNCHANGED <<pc, selVars, inVars, argVars, docVars,
                   cleanVars, pipeVars>>

SentenceReturn ==
    /\ pc = "loop"
    /\ idx > Len(sentences)
    /\ SetLoopState(FinalFlush(LoopState))
    /\ pc' = "done"
    /\ UNCHANGED <<idx, selVars, inVars, argVars, docVars,
                   cleanVars, pipeVars>>

NextSent == SentenceLoop \/ SentenceReturn

SpecSent == InitSent /\ [][NextSent]_vars

\* the loop is ordinary sequential code: it keeps running until it returns
SpecSentFair == SpecSent /\ WF_vars(NextSent)


(***************************************************************************)
(* Properties of chunk_by_sentences                                        *)
(***************************************************************************)
IsPrefix(a, b) == Len(a) <= Len(b) /\ SubSeq(b, 1, Len(a)) = a

IsSuffix(a, b) == Len(a) <= Len(b) /\ SubSeq(b, Len(b) - Len(a) + 1, Len(b)) = a

\* the sentences chunk k adds after its overlap seed
NewOf(k) == SubSeq(chunks[k], Len(seeds[k]) + 1, Len(chunks[k]))

RECURSIVE ConcatNew(_)
ConcatNew(k) == IF k = 0 THEN <<>> ELSE ConcatNew(k - 1) \o NewOf(k)

SentencesCovered ==
    /\ Len(seeds) = Len(chunks)
    /\ \A k \in 1..Len(chunks) :
          /\ IsPrefix(seeds[k], chunks[k])
          /\ Len(chunks[k]) > Len(seeds[k])
          /\ k = 1 => seeds[k] = <<>>
          /\ k > 1 => IsSuffix(seeds[k], chunks[k - 1])
          /\ \A j \in 1..(k - 1) : Range(NewOf(k)) \cap Range(chunks[j]) = {}
    /\ ConcatNew(Len(chunks)) = [i \in 1..Len(sentences) |-> i]

\* C8: for every sentence list, target and overlap (overlap >= target
\* included) the call returns, and then every chunk is a seed taken from
\* the end of the previous chunk plus at least one sentence no earlier
\* chunk holds, the new sentences in chunk order being the input list.
C8_SentencesTerminateAndCover ==
    /\ <>(pc = "done")
    /\ [](pc = "done" => SentencesCovered)

C8_Witness ==
    /\ pc = "done"
    /\ overlap_tokens >= target_tokens
    /\ Len(chunks) >= 3
    /\ \E k \in 1..Len(chunks) : Len(seeds[k]) >= 2
    /\ \E i \in 1..Len(sentences) : sentences[i] > target_tokens

\* C9 as stated: a chunk above target_tokens holds a sentence that alone
\* exceeds target_tokens.
C9_OverTargetOnlyWithOversizedSentence ==
    pc = "done" =>
        \A k \in 1..Len(chunks) :
            SumTok(chunks[k], sentences) > target_tokens
               => \E i \in 1..Len(chunks[k]) :
                     sentences[chunks[k][i]] > target_tokens

\* C9 amended: a chunk above target_tokens is its overlap seed plus exactly
\* one new sentence, its total at most overlap_tokens plus that sentence;
\* a chunk with two or more new sentences stays within target_tokens.
C9_OverTargetOnlySeedPlusOne ==
    pc = "done" =>
        \A k \in 1..Len(chunks) :
            LET total == SumTok(chunks[k], sentences)
                new == NewOf(k)
            IN  /\ total > target_tokens =>
                      /\ Len(new) = 1
                      /\ total <= overlap_tokens + sentences[new[1]]
                /\ (total > target_tokens /\ seeds[k] = <<>>) =>
                      sentences[new[1]] > target_tokens

C9_Witness ==
    /\ pc = "done"
    /\ \E k \in 1..Len(chunks) :
          /\ SumTok(chunks[k], sentences) > target_tokens
          /\ seeds[k] # <<>>
          /\ \A i \in 1..Len(chunks[k]) :
                sentences[chunks[k][i]] <= target_tokens

\* C10: with target_tokens = 800 and overlap_tokens = 100, a chunk of two
\* or more sentences whose last sentence fits the overlap budget shares a
\* sentence (its tail, the next chunk's head) with the next chunk.
C10_DefaultOverlapShared ==
    (pc = "done" /\ target_tokens = DEFAULT_TARGET_TOKENS
                 /\ overlap_tokens = DEFAULT_OVERLAP_TOKENS) =>
        \A i \in 1..(Len(chunks) - 1) :
            (/\ Len(chunks[i]) >= 2
             /\ sentences[chunks[i][Len(chunks[i])]] <= overlap_tokens)
            => \E n \in 1..Len(chunks[i]) :
                  /\ n <= Len(chunks[i + 1])
                  /\ SubSeq(chunks[i], Len(chunks[i]) - n + 1, Len(chunks[i]))
                        = SubSeq(chunks[i + 1], 1, n)

C10_Witness ==
    /\ pc = "done"
    /\ target_tokens = DEFAULT_TARGET_TOKENS
    /\ overlap_tokens = DEFAULT_OVERLAP_TOKENS
    /\ \E i \in 1..(Len(chunks) - 1) :
          /\ Len(chunks[i]) >= 2
          /\ sentences[chunks[i][Len(chunks[i])]] = overlap_tokens
          /\ chunks[i + 1][1] = chunks[i][Len(chunks[i])]


(***************************************************************************)
(* SectionChunker: the packing loop of chunk_by_sections.  A segment is    *)
(* identified by its position in `sections`; of each segment the loop      *)
(* reads whether section.strip() is empty (blank) and count_tokens (tok).  *)
(***************************************************************************)
MaxSections == 3
MaxSecTok == 7
MaxSecTarget == 5

\* section_tokens > target_tokens * 1.2, in integers (the float product
\* compares the same way for every target below 5000)
Oversized(section_tokens, target) == 5 * section_tokens > 6 * target

\* variant without the flush of a full accumulator
SectionStep_NoFlush(st, i, secs, target) ==
    IF secs[i].blank THEN st
    ELSE IF Oversized(secs[i].tok, target)
    THEN [st EXCEPT !.chunks = IF st.current_chunk # <<>>
                               THEN Append(Append(@, st.current_chunk), <<i>>)
                               ELSE Append(@, <<i>>),
                    !.current_chunk = <<>>,
                    !.current_tokens = 0]
    ELSE [st EXCEPT !.current_chunk = Append(@, i),
                    !.current_tokens = @ + secs[i].tok]

\* variant whose oversized branch resets the accumulator without emitting it
SectionStep_OversizedDropsAccumulator(st, i, secs, target) ==
    IF secs[i].blank THEN st
    ELSE IF Oversized(secs[i].tok, target)
    THEN [st EXCEPT !.chunks = Append(@, <<i>>),
                    !.current_chunk = <<>>,
                    !.current_tokens = 0]
    ELSE IF st.current_tokens + secs[i].tok > target /\ st.current_chunk # <<>>
    THEN [st EXCEPT !.chunks = Append(@, st.current_chunk),
                    !.current_chunk = <<i>>,
                    !.current_tokens = secs[i].tok]
    ELSE [st EXCEPT !.current_chunk = Append(@, i),
                    !.current_tokens = @ + secs[i].tok]

\* variant that lets the accumulator grow into the 20% overage before it
\* is flushed
SectionStep_FlushAboveOverage(st, i, secs, target) ==
    IF secs[i].blank THEN st
    ELSE IF Oversized(secs[i].tok, target)
    THEN [st EXCEPT !.chunks = IF st.current_chunk # <<>>
                               THEN Append(Append(@, st.current_chunk), <<i>>)
                               ELSE Append(@, <<i>>),
                    !.current_chunk = <<>>,
                    !.current_tokens = 0]
    ELSE IF Oversized(st.current_tokens + secs[i].tok, target)
            /\ st.current_chunk # <<>>
    THEN [st EXCEPT !.chunks = Append(@, st.current_chunk),
                    !.current_chunk = <<i>>,
                    !.current_tokens = secs[i].tok]
    ELSE [st EXCEPT !.current_chunk = Append(@, i),
                    !.current_tokens = @ + secs[i].tok]

\* one iteration of `for section in sections`
SectionStep(st, i, secs, target) ==
    IF secs[i].blank THEN st
    ELSE IF Oversized(secs[i].tok, target)
    THEN [st EXCEPT !.chunks = IF st.current_chunk # <<>>
                               THEN Append(Append(@, st.current_chunk), <<i>>)
                               ELSE Append(@, <<i>>),
                    !.current_chunk = <<>>,
                    !.current_tokens = 0]
    ELSE IF st.current_tokens + secs[i].tok > target /\ st.current_chunk # <<>>
    THEN [st EXCEPT !.chunks = Append(@, st.current_chunk),
                    !.current_chunk = <<i>>,
                    !.current_tokens = secs[i].tok]
    ELSE [st EXCEPT !.current_chunk = Append(@, i),
                    !.current_tokens = @ + secs[i].tok]

\* `if current_chunk: chunks.append(...)` after the section loop
SectionFinalFlush(st) ==
    IF st.current_chunk # <<>>
    THEN [st EXCEPT !.chunks = Append(@, st.current_chunk)]
    ELSE st

\* the loop runs only when a marker was found, so there is at least one
\* segment; only the text before the first marker can be whitespace
InitSec ==
    /\ pc = "loop"
    /\ \E n \in 1..MaxSections :
          \E t \in [1..n -> 0..MaxSecTok] :
             \E b \in BOOLEAN :
                sections = [i \in 1..n |->
                              IF i = 1 /\ b /\ n > 1
                              THEN [blank |-> TRUE, tok |-> 0]
                              ELSE [blank |-> FALSE, tok |-> t[i]]]
    /\ target_tokens \in 0..MaxSecTarget
    /\ overlap_tokens = DEFAULT_OVERLAP_TOKENS
    /\ sentences = <<>>
    /\ idx = 1 /\ current_chunk = <<>> /\ current_tokens = 0
    /\ current_seed = <<>> /\ chunks = <<>> /\ seeds = <<>>
    /\ all_docs = <<>> /\ result = <<>>
    /\ text = <<>> /\ doc_chunks = <<>> /\ doc_type = ""
    /\ CleanIdle /\ PipeIdle

SectionLoop ==
    /\ pc = "loop"
    /\ idx <= Len(sections)
    /\ SetLoopState(SectionStep(LoopState, idx, sections, target_tokens))
    /\ idx' = idx + 1
    /\ UNCHANGED <<pc, selVars, inVars, argVars, docVars,
                   cleanVars, pipeVars>>

SectionReturn ==
    /\ pc = "loop"
    /\ idx > Len(sections)
    /\ SetLoopState(SectionFinalFlush(LoopState))
    /\ pc' = "done"
    /\ UNCHANGED <<idx, selVars, inVars, argVars, docVars,
                   cleanVars, pipeVars>>

NextSec == SectionLoop \/ SectionReturn

SpecSec == InitSec /\ [][NextSec]_vars

(***************************************************************************)
(* Properties of the section packing loop                                  *)
(***************************************************************************)
SecTok == [i \in 1..Len(sections) |-> sections[i].tok]

\* C5: every chunk totals at most target_tokens * 1.2, except a chunk of
\* exactly one segment that alone exceeds target_tokens * 1.2.
C5_SectionChunkBound ==
    pc = "done" =>
        \A k \in 1..Len(chunks) :
            \/ ~Oversized(SumTok(chunks[k], SecTok), target_tokens)
            \/ /\ Len(chunks[k]) = 1
               /\ Oversized(sections[chunks[k][1]].tok, target_tokens)

C5_Witness ==
    /\ pc = "done"
    /\ target_tokens = 5
    /\ Len(chunks) = 2
    /\ Len(chunks[1]) = 2
    /\ SumTok(chunks[1], SecTok) = 5
    /\ chunks[2] = <<3>>
    /\ sections[3].tok = 7


(***************************************************************************)
(* Text level: chunk_by_sections, chunk_by_sentences and chunk_document    *)
(* applied to a text.  A text is a sequence of units:                      *)
(*   "S"   a heading such as `Section A.`  (Section\s+[A-Z\d]+\.)          *)
(*   "D"   a statute opener such as `338.056. 1.`  (\d{3}\.\d{3}\.\s+1\.)  *)
(*   "\n"  a newline,  " " a space                                         *)
(*   "w"   a word,  "." a sentence-ending punctuation mark                 *)
(*   "P"   a passage of many words (only in the texts of the pipeline)     *)
(***************************************************************************)
MaxTextLen == 5
MaxDocTarget == 2
MaxDocOverlap == 1

Units == <<"S", "D", "\n", " ", "w", ".">>

IsSpace(u) == u \in {" ", "\n"}

\* "P" is a passage: one long sentence of PassageTokens tokens that ends
\* with a full stop and holds no marker and no line break
PassageTokens == 500

\* count_tokens: the tokenizer is outside the repository; it is taken to
\* give one token per heading, opener, word and punctuation mark, none for
\* white space and PassageTokens for a passage
count_tokens(t) ==
    Cardinality({i \in 1..Len(t) : ~IsSpace(t[i])})
    + (PassageTokens - 1) * Cardinality({i \in 1..Len(t) : t[i] = "P"})

\* `not section.strip()`
IsBlank(t) == \A i \in 1..Len(t) : IsSpace(t[i])

\* text.strip() == text
IsStripped(t) == t = <<>> \/ (~IsSpace(t[1]) /\ ~IsSpace(t[Len(t)]))

\* a match of section_pattern starts at offset i: a heading anywhere, an
\* opener at the start of the text (^), or the newline before an opener (\n)
MarkerStartAt(t, i) ==
    \/ t[i] = "S"
    \/ t[i] = "D" /\ i = 1
    \/ t[i] = "\n" /\ i < Len(t) /\ t[i + 1] = "D"

\* [m.start() for m in matches], ascending
MarkerStarts(t) ==
    SelectSeq([i \in 1..Len(t) |-> i], LAMBDA i : MarkerStartAt(t, i))

\* `sections`: the text before the first marker when there is any, then
\* each marker up to the next marker or the end of the text
SectionTexts(t, ms) ==
    LET lead == IF ms[1] > 1 THEN <<SubSeq(t, 1, ms[1] - 1)>> ELSE <<>>
        rest == [k \in 1..Len(ms) |->
                    SubSeq(t, ms[k],
                           IF k < Len(ms) THEN ms[k + 1] - 1 ELSE Len(t))]
    IN  lead \o rest

\* " ".join(parts)
RECURSIVE JoinSpace(_)
JoinSpace(parts) ==
    IF parts = <<>> THEN <<>>
    ELSE IF Len(parts) = 1 THEN parts[1]
    ELSE parts[1] \o <<" ">> \o JoinSpace(Tail(parts))

\* the strings of the chunks: each chunk's parts joined
ChunkStrings(chunkIdx, parts) ==
    [k \in 1..Len(chunkIdx) |->
        JoinSpace([j \in 1..Len(chunkIdx[k]) |-> parts[chunkIdx[k][j]]])]

RECURSIVE RunSections(_, _, _, _)
RunSections(st, i, secs, target) ==
    IF i > Len(secs) THEN SectionFinalFlush(st)
    ELSE RunSections(SectionStep(st, i, secs, target), i + 1, secs, target)

\* chunk_by_sections(text, target_tokens): the chunks as segment indices
\* and as strings; without a marker the whole text is the only chunk
chunk_by_sections(t, target) ==
    LET ms == MarkerStarts(t)
    IN  IF ms = <<>> THEN [chunks |-> <<>>, strings |-> <<t>>]
        ELSE LET parts == SectionTexts(t, ms)
                 secs == [i \in 1..Len(parts) |->
                             [blank |-> IsBlank(parts[i]),
                              tok |-> count_tokens(parts[i])]]
                 st == RunSections(EmptyLoopState, 1, secs, target)
             IN  [chunks |-> st.chunks,
                  strings |-> ChunkStrings(st.chunks, parts)]

\* (?<=[.!?]) holds after a punctuation mark, a heading or an opener
EndsSentence(u) == u \in {".", "S", "D", "P"}

\* last offset of the white-space run that starts at i
RECURSIVE RunEnd(_, _)
RunEnd(t, i) == IF i < Len(t) /\ IsSpace(t[i + 1]) THEN RunEnd(t, i + 1) ELSE i

\* re.split(r'(?<=[.!?])\s+', text) from offset start on
RECURSIVE SplitFrom(_, _)
SplitFrom(t, start) ==
    LET seps == {i \in start..Len(t) :
                    i > 1 /\ IsSpace(t[i]) /\ EndsSentence(t[i - 1])}
    IN  IF seps = {} THEN <<SubSeq(t, start, Len(t))>>
        ELSE <<SubSeq(t, start, Min(seps) - 1)>>
                \o SplitFrom(t, RunEnd(t, Min(seps)) + 1)

RECURSIVE RunSentences(_, _, _, _, _)
RunSentences(st, i, tok, target, overlap) ==
    IF i > Len(tok) THEN FinalFlush(st)
    ELSE RunSentences(SentenceStep(st, i, tok, target, overlap),
                      i + 1, tok, target, overlap)

\* chunk_by_sentences(text, target_tokens, overlap_tokens)
chunk_by_sentences(t, target, overlap) ==
    LET parts == SplitFrom(t, 1)
        tok == [i \in 1..Len(parts) |-> count_tokens(parts[i])]
        st == RunSentences(EmptyLoopState, 1, tok, target, overlap)
    IN  [chunks |-> st.chunks, strings |-> ChunkStrings(st.chunks, parts)]

\* the classifier's re.search: a heading or an opener anywhere in the text
has_sections(t) == \E i \in 1..Len(t) : t[i] \in {"S", "D"}

\* variant that keeps a short summary whole only strictly below the target
chunk_document_StrictlyBelow(t, target, overlap) ==
    IF has_sections(t)
    THEN [chunks |-> chunk_by_sections(t, target).strings,
          doc_type |-> "legislative_text"]
    ELSE IF count_tokens(t) < target
    THEN [chunks |-> <<t>>, doc_type |-> "summary"]
    ELSE [chunks |-> chunk_by_sentences(t, target, overlap).strings,
          doc_type |-> "summary"]

chunk_document(t, target, overlap) ==
    IF has_sections(t)
    THEN [chunks |-> chunk_by_sections(t, target).strings,
          doc_type |-> "legislative_text"]
    ELSE IF count_tokens(t) <= target
    THEN [chunks |-> <<t>>, doc_type |-> "summary"]
    ELSE [chunks |-> chunk_by_sentences(t, target, overlap).strings,
          doc_type |-> "summary"]

InitDoc ==
    /\ pc = "input"
    /\ \E n \in 0..MaxTextLen :
          \E f \in [1..n -> 1..Len(Units)] :
             text = [i \in 1..n |-> Units[f[i]]]
    /\ target_tokens \in 0..MaxDocTarget
    /\ overlap_tokens \in 0..MaxDocOverlap
    /\ sentences = <<>> /\ sections = <<>>
    /\ idx = 1 /\ current_chunk = <<>> /\ current_tokens = 0
    /\ current_seed = <<>> /\ chunks = <<>> /\ seeds = <<>>
    /\ all_docs = <<>> /\ result = <<>>
    /\ doc_chunks = <<>> /\ doc_type = ""
    /\ CleanIdle /\ PipeIdle

\* a call of chunk_document(text, target_tokens, overlap_tokens)
ChunkDocument ==
    /\ pc = "input"
    /\ LET r == chunk_document(text, target_tokens, overlap_tokens)
       IN  doc_chunks' = r.chunks /\ doc_type' = r.doc_type
    /\ pc' = "done"
    /\ UNCHANGED <<text, selVars, inVars, argVars, loopVars,
                   cleanVars, pipeVars>>

\* a call of chunk_by_sections(text, target_tokens, overlap_tokens)
ChunkBySections ==
    /\ pc = "input"
    /\ LET r == chunk_by_sections(text, target_tokens)
       IN  doc_chunks' = r.strings /\ chunks' = r.chunks
    /\ pc' = "done_sections"
    /\ UNCHANGED <<text, doc_type, selVars, inVars, argVars, idx,
                   current_chunk, current_tokens, current_seed, seeds,
                   cleanVars, pipeVars>>

NextDoc == ChunkDocument \/ ChunkBySections

SpecDoc == InitDoc /\ [][NextDoc]_vars


(***************************************************************************)
(* Properties of chunk_by_sections and chunk_document on texts             *)
(***************************************************************************)
RECURSIVE Flatten(_)
Flatten(qs) == IF qs = <<>> THEN <<>> ELSE Head(qs) \o Flatten(Tail(qs))

\* the parts a chunk lists, written with one space between neighbours
RECURSIVE SpaceJoined(_, _)
SpaceJoined(c, parts) ==
    IF Len(c) = 1 THEN parts[c[1]]
    ELSE SpaceJoined(SubSeq(c, 1, Len(c) - 1), parts)
            \o <<" ">> \o parts[c[Len(c)]]

C7_DispatchTotalAndExact ==
    pc = "done" =>
        LET marked == \E i \in 1..Len(text) : text[i] = "S" \/ text[i] = "D"
        IN  /\ marked =>
                /\ doc_type = "legislative_text"
                /\ doc_chunks = chunk_by_sections(text, target_tokens).strings
            /\ ~marked =>
                /\ doc_type = "summary"
                /\ count_tokens(text) <= target_tokens => doc_chunks = <<text>>
                /\ count_tokens(text) > target_tokens =>
                      doc_chunks = chunk_by_sentences(text, target_tokens,
                                                      overlap_tokens).strings

C7_Witness ==
    /\ pc = "done"
    /\ doc_type = "summary"
    /\ target_tokens > 0
    /\ count_tokens(text) = target_tokens
    /\ doc_chunks = <<text>>
    /\ chunk_by_sentences(text, target_tokens, overlap_tokens).strings # <<text>>


(***************************************************************************)
(* clean_legislative_text applied to a raw text.  The raw text is a        *)
(* sequence of the units above and of these characters:                    *)
(*   NUL  the null character,  "-" a hyphen,  "&" an ampersand             *)
(*   "1"  a digit                                                          *)
(*   "H", "B", CapitalS   capital letters,  "s" the small letter s         *)
(* A heading begins with a capital and small letters (`Section`) and an    *)
(* opener with digits followed by a dot (`338.`); both end with a dot.     *)
(* Each re.sub is computed as the regex engine computes it: leftmost       *)
(* match first, greedy quantifiers, backtracking, no overlapping matches.  *)
(***************************************************************************)
MaxRawLen == 5

NUL == "NUL"
CapitalS == "S_"

\* \s
WsChars == {" ", "\n"}
IsWs(u) == u \in WsChars
\* \w matches the whole unit
WordChars == {"w", "1", "H", "B", "s", CapitalS}
\* \w+ can start at the unit
StartsWord(u) == u \in WordChars \/ u \in {"S", "D", "P"}
\* \d
DigitChars == {"1"}
\* [A-Z]; the capital of a heading is followed by a small letter, so it
\* never completes [A-Z]{2,}\s+
UpperChars_AZ == {"H", "B", CapitalS}
\* [\d\s&]
HeaderNumChars == DigitChars \cup WsChars \cup {"&"}

\* the last offset of the longest run of units of the class that starts at
\* offset i (i - 1 when the run is empty): what a greedy + or * consumes
MatchRun(t, i, class) ==
    IF i > Len(t) THEN i - 1
    ELSE IF \A j \in i..Len(t) : t[j] \in class THEN Len(t)
    ELSE (CHOOSE j \in i..Len(t) :
             t[j] \notin class /\ \A k \in i..(j - 1) : t[k] \in class) - 1

\* re.sub(pattern, repl, t): ends[i] is the end of the match that starts
\* at offset i (0 when there is none), repl[i] its replacement; out[i] is
\* the output for the text from offset i on
re_sub(t, ends, repl) ==
    LET out[i \in 1..(Len(t) + 1)] ==
            IF i > Len(t) THEN <<>>
            ELSE IF ends[i] > 0 THEN repl[i] \o out[ends[i] + 1]
            ELSE <<t[i]>> \o out[i + 1]
    IN  out[1]

\* text.replace('\x00', '')
RemoveNull(t) == SelectSeq(t, LAMBDA u : u # NUL)

\* (\w+)-\s*\n\s*(\w+): a word, a hyphen, white space holding a newline, a
\* word; a heading or opener after the white space gives its first letters
\* or digits to the second group and gets them back in the replacement
HyphenEnd(t, i) ==
    LET w == MatchRun(t, i, WordChars)
    IN  IF w < i \/ w + 1 > Len(t) THEN 0
        ELSE IF t[w + 1] # "-" THEN 0
        ELSE LET r == MatchRun(t, w + 2, WsChars)
             IN  IF ~(\E k \in (w + 2)..r : t[k] = "\n") THEN 0
                 ELSE IF r + 1 > Len(t) THEN 0
                 ELSE IF ~StartsWord(t[r + 1]) THEN 0
                 ELSE MatchRun(t, r + 1, WordChars)

\* r'\1\2'
HyphenRepl(t, i, e) ==
    LET w == MatchRun(t, i, WordChars)
        r == MatchRun(t, w + 2, WsChars)
    IN  SubSeq(t, i, w) \o SubSeq(t, r + 1, e)

FixHyphenation(t) ==
    re_sub(t, [i \in 1..Len(t) |-> HyphenEnd(t, i)],
              [i \in 1..Len(t) |-> HyphenRepl(t, i, HyphenEnd(t, i))])

\* ^ and $ under re.MULTILINE
AtLineStart(t, i) == i = 1 \/ t[i - 1] = "\n"
AtLineEnd(t, e) == e = Len(t) \/ t[e + 1] = "\n"

\* \s+\d+\s*$ after [\d\s&]+ ended at offset x: the end of the match, or 0
HeaderPageEnd(t, x) ==
    IF x + 1 > Len(t) THEN 0
    ELSE IF ~IsWs(t[x + 1]) THEN 0
    ELSE LET a == MatchRun(t, x + 1, WsChars)
             r == MatchRun(t, a + 1, DigitChars)
             z == MatchRun(t, r + 1, WsChars)
             ends == {e \in r..z : AtLineEnd(t, e)}
         IN  IF r < a + 1 \/ ends = {} THEN 0
             ELSE CHOOSE e \in ends : \A f \in ends : f <= e

\* \s+[\d\s&]+\s+\d+\s*$ from offset p: [\d\s&]+ keeps the most it can
HeaderTailEnd(t, p) ==
    IF p > Len(t) THEN 0
    ELSE IF ~IsWs(t[p]) THEN 0
    ELSE LET last == MatchRun(t, p, HeaderNumChars)
             xs == {x \in (p + 1)..last : HeaderPageEnd(t, x) > 0}
         IN  IF xs = {} THEN 0
             ELSE HeaderPageEnd(t, CHOOSE x \in xs : \A y \in xs : y <= x)

\* (?:HBs?|SBs?) at offset p: the offset of its last character, or 0
BillTypeEnd(t, p) ==
    IF p + 1 > Len(t) THEN 0
    ELSE IF ~(t[p] \in {"H", CapitalS} /\ t[p + 1] = "B") THEN 0
    ELSE IF p + 2 <= Len(t) /\ t[p + 2] = "s" THEN p + 2
    ELSE p + 1

\* (?:[A-Z]{2,}\s+)*(?:HBs?|SBs?)... from offset p: the repetition takes
\* one more code when that leads to a match, else the bill type is tried
RECURSIVE HeaderCodesEnd(_, _)
HeaderCodesEnd(t, p) ==
    LET u == MatchRun(t, p, UpperChars_AZ)
        a == MatchRun(t, u + 1, WsChars)
        more == IF u >= p + 1 /\ a >= u + 1 THEN HeaderCodesEnd(t, a + 1)
                ELSE 0
        b == BillTypeEnd(t, p)
    IN  IF more > 0 THEN more
        ELSE IF b > 0 THEN HeaderTailEnd(t, b + 1)
        ELSE 0

\* ^[A-Z]{2,}\s+(?:[A-Z]{2,}\s+)*(?:HBs?|SBs?)\s+[\d\s&]+\s+\d+\s*$
PageHeaderEnd(t, i) ==
    IF ~AtLineStart(t, i) THEN 0
    ELSE LET u == MatchRun(t, i, UpperChars_AZ)
             a == MatchRun(t, u + 1, WsChars)
         IN  IF u < i + 1 \/ a < u + 1 THEN 0
             ELSE HeaderCodesEnd(t, a + 1)

RemovePageHeaders(t) ==
    re_sub(t, [i \in 1..Len(t) |-> PageHeaderEnd(t, i)],
              [i \in 1..Len(t) |-> <<>>])

\* ^\s*\d+\s+
LineNumberEnd(t, i) ==
    IF ~AtLineStart(t, i) THEN 0
    ELSE LET a == MatchRun(t, i, WsChars)
             r == MatchRun(t, a + 1, DigitChars)
             z == MatchRun(t, r + 1, WsChars)
         IN  IF r < a + 1 \/ z < r + 1 THEN 0 ELSE z

RemoveLineNumbers(t) ==
    re_sub(t, [i \in 1..Len(t) |-> LineNumberEnd(t, i)],
              [i \in 1..Len(t) |-> <<>>])

\* re.sub(r' +', ' ', text)
SpacesEnd(t, i) ==
    LET e == MatchRun(t, i, {" "}) IN IF e >= i THEN e ELSE 0
CollapseSpaces(t) ==
    re_sub(t, [i \in 1..Len(t) |-> SpacesEnd(t, i)],
              [i \in 1..Len(t) |-> <<" ">>])

\* re.sub(r'\n{3,}', '\n\n', text)
NewlinesEnd(t, i) ==
    LET e == MatchRun(t, i, {"\n"}) IN IF e >= i + 2 THEN e ELSE 0
CollapseNewlines(t) ==
    re_sub(t, [i \in 1..Len(t) |-> NewlinesEnd(t, i)],
              [i \in 1..Len(t) |-> <<"\n", "\n">>])

\* text.strip()
Strip(t) ==
    IF \A i \in 1..Len(t) : IsWs(t[i]) THEN <<>>
    ELSE LET a == CHOOSE i \in 1..Len(t) :
                     ~IsWs(t[i]) /\ \A k \in 1..(i - 1) : IsWs(t[k])
             b == CHOOSE i \in 1..Len(t) :
                     ~IsWs(t[i]) /\ \A k \in (i + 1)..Len(t) : IsWs(t[k])
         IN  SubSeq(t, a, b)

clean_legislative_text_KeepNull(t) ==
    Strip(CollapseNewlines(CollapseSpaces(RemoveLineNumbers(
        RemovePageHeaders(FixHyphenation(t))))))

\* variant that normalises white space before the removal steps
clean_legislative_text_NormaliseFirst(t) ==
    RemoveLineNumbers(RemovePageHeaders(Strip(CollapseNewlines(
        CollapseSpaces(FixHyphenation(RemoveNull(t)))))))

clean_legislative_text(t) ==
    Strip(CollapseNewlines(CollapseSpaces(RemoveLineNumbers(
        RemovePageHeaders(FixHyphenation(RemoveNull(t)))))))

\* a page header such as `HB HB 1 1`
PageHeader == <<"H", "B", " ", "H", "B", " ", "1", " ", "1">>

\* what a raw text is put together from
RawPieces == << <<NUL>>, <<"-">>, <<"\n">>, <<" ">>, <<"w">>, <<"1">>,
                PageHeader >>

RECURSIVE Concat(_)
Concat(parts) ==
    IF parts = <<>> THEN <<>> ELSE parts[1] \o Concat(Tail(parts))

\* the documented inputs `12 34 text` and `a-\nb-\nc`
ExampleTwoNumbers == <<"1", "1", " ", "1", "1", " ", "w", "w">>
ExampleChainedHyphens == <<"w", "-", "\n", "w", "-", "\n", "w">>

InitClean ==
    /\ pc = "input"
    /\ \/ \E n \in 0..MaxRawLen :
            \E f \in [1..n -> 1..Len(RawPieces)] :
               text = Concat([i \in 1..n |-> RawPieces[f[i]]])
       \/ text = ExampleTwoNumbers
       \/ text = ExampleChainedHyphens
    /\ all_docs = <<>> /\ result = <<>>
    /\ sentences = <<>> /\ sections = <<>>
    /\ target_tokens = 0 /\ overlap_tokens = 0
    /\ idx = 1 /\ current_chunk = <<>> /\ current_tokens = 0
    /\ current_seed = <<>> /\ chunks = <<>> /\ seeds = <<>>
    /\ doc_chunks = <<>> /\ doc_type = ""
    /\ CleanIdle /\ PipeIdle

\* clean_text = clean_legislative_text(raw_text)
CleanText ==
    /\ pc = "input"
    /\ clean_text' = clean_legislative_text(text)
    /\ pc' = "cleaned"
    /\ UNCHANGED <<reclean_text, selVars, inVars, argVars, loopVars,
                   docVars, pipeVars>>

\* the cleaner applied to its own output
CleanAgain ==
    /\ pc = "cleaned"
    /\ reclean_text' = clean_legislative_text(clean_text)
    /\ pc' = "recleaned"
    /\ UNCHANGED <<clean_text, selVars, inVars, argVars, loopVars,
                   docVars, pipeVars>>

NextClean == CleanText \/ CleanAgain

SpecClean == InitClean /\ [][NextClean]_vars

\* C11: cleaning is idempotent: cleaning the cleaner's output again gives
\* that output back, for every raw text
C11_CleaningIdempotent ==
    pc = "recleaned" => reclean_text = clean_text

\* C12: the output of clean_legislative_text holds no null character,
\* whatever the input
C12_NoNullInCleanText ==
    pc \in {"cleaned", "recleaned"} =>
        /\ \A i \in 1..Len(clean_text) : clean_text[i] # NUL
        /\ \A i \in 1..Len(reclean_text) : reclean_text[i] # NUL

\* a raw text with a null character between two words was cleaned
C12_Witness ==
    /\ pc = "cleaned"
    /\ text = <<"w", NUL, "w">>
    /\ clean_text = <<"w", "w">>


(***************************************************************************)
(* The embeddings pipeline: main() builds the Database and the             *)
(* EmbeddingsPipeline, generate_embeddings_for_session runs process_session*)
(* for one session, process_session runs process_bill for each bill and    *)
(* process_bill runs process_document for each selected document.  The     *)
(* database, storage, PDF reader, tokenizer, embedding API and vector      *)
(* store are outside the repository: every call to one of them either      *)
(* returns or raises, and a store write adds its whole batch or nothing.   *)
(***************************************************************************)
MaxBills == 2

\* Python's None for a scalar value
None == "None"

\* one entry of `calls`
Ev(c, b, d, ok) == [call |-> c, bill |-> b, doc |-> d, ok |-> ok]

\* storage path of a later version of the bill
P_PdfPerfected == <<"H","B","1","_","p",".","p","d","f">>

\* the rows get_bill_documents can return for bill b: none, an introduced
\* version, or introduced and perfected versions with a fiscal note
BillRows(b) ==
    << <<>>,
       <<Doc(10 * b + 1, T_Introduced, P_Pdf)>>,
       <<Doc(10 * b + 1, T_Introduced, P_Pdf),
         Doc(10 * b + 2, T_Perfected, P_PdfPerfected),
         Doc(10 * b + 3, T_FiscalNote, P_Org)>> >>

\* the PDF kept in storage under a path: the introduced version is a
\* summary of two passages behind a line number, the perfected version has
\* two sections and a null character
StorageText(path) ==
    IF path = P_Pdf THEN <<"1", " ", "P", " ", "P">>
    ELSE <<"S", " ", "P", NUL, "\n", "S", " ", "P">>

\* the dictionary get_bill_metadata_for_embeddings returns for a bill that
\* exists: "full" has a session, a primary sponsor, co-sponsors and a
\* committee, "bare" has none of them
get_bill_metadata_for_embeddings(b, kind) ==
    [bill_id |-> b,
     bill_number |-> <<"HB", b>>,
     session_year |-> IF kind = "full" THEN "2026" ELSE None,
     session_code |-> IF kind = "full" THEN "R" ELSE None,
     primary_sponsor |->
        IF kind = "full" THEN <<[id |-> "L1", name |-> "Smith"]>> ELSE <<>>,
     cosponsors |->
        IF kind = "full"
        THEN <<[id |-> "L2", name |-> "Jones"], [id |-> "L3", name |-> "Lee"]>>
        ELSE <<>>,
     committees |->
        IF kind = "full" THEN <<[id |-> "K1", name |-> "Budget"]>> ELSE <<>>]

MetadataKinds == {"full", "bare"}

\* variant that numbers the chunks from one
ChunkMetadata_IndexFromOne(bill_id, document_id, content_type, meta, i, chunk, dtype) ==
    LET base == [bill_id |-> bill_id,
                 bill_number |-> meta.bill_number,
                 document_id |-> document_id,
                 content_type |-> content_type,
                 chunk_index |-> i + 1,
                 doc_type |-> dtype,
                 token_count |-> count_tokens(chunk),
                 session_year |-> meta.session_year,
                 session_code |-> meta.session_code]
        m1 == IF meta.primary_sponsor # <<>>
              THEN base @@ [primary_sponsor_id |-> meta.primary_sponsor[1].id,
                            primary_sponsor_name |-> meta.primary_sponsor[1].name]
              ELSE base
        m2 == IF meta.cosponsors # <<>>
              THEN m1 @@ [cosponsor_ids |->
                             [k \in 1..Len(meta.cosponsors) |-> meta.cosponsors[k].id],
                          cosponsor_names |->
                             [k \in 1..Len(meta.cosponsors) |-> meta.cosponsors[k].name]]
              ELSE m1
    IN  IF meta.committees # <<>>
        THEN m2 @@ [committee_ids |->
                       [k \in 1..Len(meta.committees) |-> meta.committees[k].id],
                    committee_names |->
                       [k \in 1..Len(meta.committees) |-> meta.committees[k].name]]
        ELSE m2

\* the metadata dictionary of the chunk at position i of enumerate(chunks)
ChunkMetadata(bill_id, document_id, content_type, meta, i, chunk, dtype) ==
    LET base == [bill_id |-> bill_id,
                 bill_number |-> meta.bill_number,
                 document_id |-> document_id,
                 content_type |-> content_type,
                 chunk_index |-> i,
                 doc_type |-> dtype,
                 token_count |-> count_tokens(chunk),
                 session_year |-> meta.session_year,
                 session_code |-> meta.session_code]
        m1 == IF meta.primary_sponsor # <<>>
              THEN base @@ [primary_sponsor_id |-> meta.primary_sponsor[1].id,
                            primary_sponsor_name |-> meta.primary_sponsor[1].name]
              ELSE base
        m2 == IF meta.cosponsors # <<>>
              THEN m1 @@ [cosponsor_ids |->
                             [k \in 1..Len(meta.cosponsors) |-> meta.cosponsors[k].id],
                          cosponsor_names |->
                             [k \in 1..Len(meta.cosponsors) |-> meta.cosponsors[k].name]]
              ELSE m1
    IN  IF meta.committees # <<>>
        THEN m2 @@ [committee_ids |->
                       [k \in 1..Len(meta.committees) |-> meta.committees[k].id],
                    committee_names |->
                       [k \in 1..Len(meta.committees) |-> meta.committees[k].name]]
        ELSE m2

\* variant that leaves out the chunks that are empty or all white space
BuildDocumentsWith_SkipBlank(bill_id, document_id, content_type, meta, raw_text, target, overlap) ==
    LET r == chunk_document(clean_legislative_text(raw_text), target, overlap)
        kept == SelectSeq(r.chunks, LAMBDA c : ~IsBlank(c))
    IN  [k \in 1..Len(kept) |->
            [page_content |-> kept[k],
             metadata |-> ChunkMetadata(bill_id, document_id, content_type,
                                        meta, k - 1, kept[k], r.doc_type)]]

\* the `documents` list process_document builds from the extracted text
\* when it is called with target_tokens and overlap_tokens
BuildDocumentsWith(bill_id, document_id, content_type, meta, raw_text, target, overlap) ==
    LET r == chunk_document(clean_legislative_text(raw_text), target, overlap)
    IN  [k \in 1..Len(r.chunks) |->
            [page_content |-> r.chunks[k],
             metadata |-> ChunkMetadata(bill_id, document_id, content_type,
                                        meta, k - 1, r.chunks[k], r.doc_type)]]

\* the same list under the default arguments, which process_bill leaves
\* in place
BuildDocuments(bill_id, document_id, content_type, meta, raw_text) ==
    BuildDocumentsWith(bill_id, document_id, content_type, meta, raw_text,
                       DEFAULT_TARGET_TOKENS, DEFAULT_OVERLAP_TOKENS)

\* how the external calls of one process_document call can end
DocOutcomes == {"download_fails", "extract_fails", "tokenizer_fails",
                "store_fails", "ok"}

Download(b, d, ok) == Ev("download_from_storage", b, d, ok)
Extract(b, d, ok, raw) == Ev("extract_text_from_pdf", b, d, ok) @@ [text |-> raw]
AddDocuments(b, d, ok, batch) == Ev("add_documents", b, d, ok) @@ [batch |-> batch]
Returns(f, b, d, n) == Ev(f, b, d, TRUE) @@ [value |-> n]

\* result of one process_document call
DocResult(evs, written, returned, raised) ==
    [calls |-> evs, written |-> written, returned |-> returned,
     raised |-> raised]

\* variant without the try/except around add_documents
process_document_StoreErrorEscapes(b, d, storage_path, content_type, meta, outcome) ==
    IF outcome = "download_fails"
    THEN DocResult(<<Download(b, d, FALSE),
                     Returns("process_document", b, d, 0)>>, <<>>, 0, "none")
    ELSE IF outcome = "extract_fails"
    THEN DocResult(<<Download(b, d, TRUE), Extract(b, d, FALSE, <<>>),
                     Returns("process_document", b, d, 0)>>, <<>>, 0, "none")
    ELSE IF outcome = "tokenizer_fails"
    THEN DocResult(<<Download(b, d, TRUE), Extract(b, d, TRUE, StorageText(storage_path))>>,
                   <<>>, 0, "count_tokens")
    ELSE LET docs == BuildDocuments(b, d, content_type, meta,
                                    StorageText(storage_path))
         IN  IF outcome = "store_fails"
             THEN DocResult(<<Download(b, d, TRUE), Extract(b, d, TRUE, StorageText(storage_path)),
                              AddDocuments(b, d, FALSE, docs)>>,
                            <<>>, 0, "add_documents")
             ELSE DocResult(<<Download(b, d, TRUE), Extract(b, d, TRUE, StorageText(storage_path)),
                              AddDocuments(b, d, TRUE, docs),
                              Returns("process_document", b, d, Len(docs))>>,
                            docs, Len(docs), "none")

\* variant that goes on with an empty text when the extraction fails
process_document_StoresAfterExtractFailure(b, d, storage_path, content_type, meta, outcome) ==
    IF outcome = "download_fails"
    THEN DocResult(<<Download(b, d, FALSE),
                     Returns("process_document", b, d, 0)>>, <<>>, 0, "none")
    ELSE IF outcome = "extract_fails"
    THEN LET docs == BuildDocuments(b, d, content_type, meta, <<>>)
         IN  DocResult(<<Download(b, d, TRUE), Extract(b, d, FALSE, <<>>),
                         AddDocuments(b, d, TRUE, docs),
                         Returns("process_document", b, d, 0)>>,
                       docs, 0, "none")
    ELSE IF outcome = "tokenizer_fails"
    THEN DocResult(<<Download(b, d, TRUE), Extract(b, d, TRUE, StorageText(storage_path))>>,
                   <<>>, 0, "count_tokens")
    ELSE LET docs == BuildDocuments(b, d, content_type, meta,
                                    StorageText(storage_path))
         IN  IF outcome = "store_fails"
             THEN DocResult(<<Download(b, d, TRUE), Extract(b, d, TRUE, StorageText(storage_path)),
                              AddDocuments(b, d, FALSE, docs),
                              Returns("process_document", b, d, 0)>>,
                            <<>>, 0, "none")
             ELSE DocResult(<<Download(b, d, TRUE), Extract(b, d, TRUE, StorageText(storage_path)),
                              AddDocuments(b, d, TRUE, docs),
                              Returns("process_document", b, d, Len(docs))>>,
                            docs, Len(docs), "none")

\* variant that writes each chunk in a call of its own
process_document_OneWritePerChunk(b, d, storage_path, content_type, meta, outcome) ==
    IF outcome = "download_fails"
    THEN DocResult(<<Download(b, d, FALSE),
                     Returns("process_document", b, d, 0)>>, <<>>, 0, "none")
    ELSE IF outcome = "extract_fails"
    THEN DocResult(<<Download(b, d, TRUE), Extract(b, d, FALSE, <<>>),
                     Returns("process_document", b, d, 0)>>, <<>>, 0, "none")
    ELSE IF outcome = "tokenizer_fails"
    THEN DocResult(<<Download(b, d, TRUE), Extract(b, d, TRUE, StorageText(storage_path))>>,
                   <<>>, 0, "count_tokens")
    ELSE LET docs == BuildDocuments(b, d, content_type, meta,
                                    StorageText(storage_path))
         IN  IF outcome = "store_fails"
             THEN DocResult(<<Download(b, d, TRUE), Extract(b, d, TRUE, StorageText(storage_path)),
                              AddDocuments(b, d, FALSE, docs),
                              Returns("process_document", b, d, 0)>>,
                            <<>>, 0, "none")
             ELSE DocResult(<<Download(b, d, TRUE), Extract(b, d, TRUE, StorageText(storage_path))>>
                            \o [k \in 1..Len(docs) |->
                                   AddDocuments(b, d, TRUE, <<docs[k]>>)]
                            \o <<Returns("process_document", b, d, Len(docs))>>,
                            docs, Len(docs), "none")

\* variant that tries the store write a second time when it failed
process_document_RetryStore(b, d, storage_path, content_type, meta, outcome) ==
    IF outcome = "download_fails"
    THEN DocResult(<<Download(b, d, FALSE),
                     Returns("process_document", b, d, 0)>>, <<>>, 0, "none")
    ELSE IF outcome = "extract_fails"
    THEN DocResult(<<Download(b, d, TRUE), Extract(b, d, FALSE, <<>>),
                     Returns("process_document", b, d, 0)>>, <<>>, 0, "none")
    ELSE IF outcome = "tokenizer_fails"
    THEN DocResult(<<Download(b, d, TRUE), Extract(b, d, TRUE, StorageText(storage_path))>>,
                   <<>>, 0, "count_tokens")
    ELSE LET docs == BuildDocuments(b, d, content_type, meta,
                                    StorageText(storage_path))
         IN  IF outcome = "store_fails"
             THEN DocResult(<<Download(b, d, TRUE), Extract(b, d, TRUE, StorageText(storage_path)),
                              AddDocuments(b, d, FALSE, docs),
                              AddDocuments(b, d, FALSE, docs),
                              Returns("process_document", b, d, 0)>>,
                            <<>>, 0, "none")
             ELSE DocResult(<<Download(b, d, TRUE), Extract(b, d, TRUE, StorageText(storage_path)),
                              AddDocuments(b, d, TRUE, docs),
                              Returns("process_document", b, d, Len(docs))>>,
                            docs, Len(docs), "none")

\* process_document(bill_id, document_id, storage_path, content_type,
\* bill_metadata): the calls it makes, the rows it writes, what it returns
\* and the exception that leaves it; `outcome` is what its external calls
\* do
process_document(b, d, storage_path, content_type, meta, outcome) ==
    IF outcome = "download_fails"
    THEN DocResult(<<Download(b, d, FALSE),
                     Returns("process_document", b, d, 0)>>, <<>>, 0, "none")
    ELSE IF outcome = "extract_fails"
    THEN DocResult(<<Download(b, d, TRUE), Extract(b, d, FALSE, <<>>),
                     Returns("process_document", b, d, 0)>>, <<>>, 0, "none")
    ELSE IF outcome = "tokenizer_fails"
    THEN DocResult(<<Download(b, d, TRUE), Extract(b, d, TRUE, StorageText(storage_path))>>,
                   <<>>, 0, "count_tokens")
    ELSE LET docs == BuildDocuments(b, d, content_type, meta,
                                    StorageText(storage_path))
         IN  IF outcome = "store_fails"
             THEN DocResult(<<Download(b, d, TRUE), Extract(b, d, TRUE, StorageText(storage_path)),
                              AddDocuments(b, d, FALSE, docs),
                              Returns("process_document", b, d, 0)>>,
                            <<>>, 0, "none")
             ELSE DocResult(<<Download(b, d, TRUE), Extract(b, d, TRUE, StorageText(storage_path)),
                              AddDocuments(b, d, TRUE, docs),
                              Returns("process_document", b, d, Len(docs))>>,
                            docs, Len(docs), "none")

InitPipe ==
    /\ pc = "start"
    /\ creds \in [supabase : BOOLEAN, openai : BOOLEAN]
    /\ bills = <<>> /\ bi = 1
    /\ bill_metadata = <<>> /\ documents = <<>> /\ di = 1
    /\ bill_embeddings = 0 /\ bills_processed = 0 /\ total_embeddings = 0
    /\ store = <<>> /\ calls = <<>> /\ escaped = "none"
    /\ all_docs = <<>> /\ result = <<>>
    /\ sentences = <<>> /\ sections = <<>>
    /\ target_tokens = DEFAULT_TARGET_TOKENS
    /\ overlap_tokens = DEFAULT_OVERLAP_TOKENS
    /\ idx = 1 /\ current_chunk = <<>> /\ current_tokens = 0
    /\ current_seed = <<>> /\ chunks = <<>> /\ seeds = <<>>
    /\ text = <<>> /\ doc_chunks = <<>> /\ doc_type = ""
    /\ CleanIdle

otherVars == <<result, inVars, argVars, loopVars, docVars, cleanVars>>

\* variant that goes on without the embedding API key
Construct_IgnoresMissingKey ==
    /\ pc = "start"
    /\ pc' = IF creds.supabase THEN "session" ELSE "fatal"
    /\ UNCHANGED <<all_docs, otherVars, pipeVars>>

\* main(): db = Database(); pipeline = EmbeddingsPipeline(db=db).  Either
\* constructor raises RuntimeError when its credentials are missing
Construct ==
    /\ pc = "start"
    /\ pc' = IF creds.supabase /\ creds.openai THEN "session" ELSE "fatal"
    /\ UNCHANGED <<all_docs, otherVars, pipeVars>>

\* process_session up to its loop: get_bills_for_session raises (caught by
\* generate_embeddings_for_session) or returns the bills of the session
ProcessSession ==
    /\ pc = "session"
    /\ \/ /\ calls' = Append(calls, Ev("get_bills_for_session", 0, 0, FALSE))
          /\ escaped' = "get_bills_for_session"
          /\ pc' = "done"
          /\ UNCHANGED bills
       \/ \E n \in 0..MaxBills :
             /\ calls' = Append(calls, Ev("get_bills_for_session", 0, 0, TRUE))
             /\ bills' = [i \in 1..n |-> i]
             /\ pc' = IF n = 0 THEN "done" ELSE "bill"
             /\ UNCHANGED escaped
    /\ UNCHANGED <<creds, bi, bill_metadata, documents, di, bill_embeddings,
                   bills_processed, total_embeddings, store, all_docs,
                   otherVars>>

\* process_bill(bill['id']) up to its loop: the metadata lookup and the
\* document listing.  An exception of either leaves process_bill and
\* process_session; `return 0` goes back to the loop of process_session
ProcessBill ==
    /\ pc = "bill" /\ bi <= Len(bills)
    /\ LET b == bills[bi]
           lookup(ok) == Ev("get_bill_metadata_for_embeddings", b, 0, ok)
           listing(ok) == Ev("get_embeddable_bill_documents", b, 0, ok)
       IN
       \/ /\ calls' = Append(calls, lookup(FALSE))
          /\ escaped' = "get_bill_metadata_for_embeddings"
          /\ pc' = "done"
          /\ UNCHANGED <<bi, bill_metadata, documents, di, bill_embeddings,
                         all_docs>>
       \/ /\ calls' = calls \o <<lookup(TRUE) @@ [found |-> FALSE],
                                 Returns("process_bill", b, 0, 0)>>
          /\ bill_metadata' = <<>>
          /\ bi' = bi + 1
          /\ UNCHANGED <<pc, escaped, documents, di, bill_embeddings, all_docs>>
       \/ \E kind \in MetadataKinds :
             /\ bill_metadata' = get_bill_metadata_for_embeddings(b, kind)
             /\ \/ /\ calls' = calls \o <<lookup(TRUE) @@ [found |-> TRUE],
                                          listing(FALSE)>>
                   /\ escaped' = "get_embeddable_bill_documents"
                   /\ pc' = "done"
                   /\ UNCHANGED <<bi, documents, di, bill_embeddings, all_docs>>
                \/ \E r \in 1..Len(BillRows(b)) :
                      LET rows == BillRows(b)[r]
                          selected == get_embeddable_bill_documents(rows)
                      IN  /\ all_docs' = rows
                          /\ documents' = selected
                          /\ di' = 1
                          /\ bill_embeddings' = 0
                          /\ UNCHANGED escaped
                          /\ IF selected = <<>>
                             THEN /\ calls' = calls \o
                                        <<lookup(TRUE) @@ [found |-> TRUE],
                                          listing(TRUE) @@ [selected |-> selected],
                                          Returns("process_bill", b, 0, 0)>>
                                  /\ bi' = bi + 1
                                  /\ UNCHANGED pc
                             ELSE /\ calls' = calls \o
                                        <<lookup(TRUE) @@ [found |-> TRUE],
                                          listing(TRUE) @@ [selected |-> selected]>>
                                  /\ pc' = "doc"
                                  /\ UNCHANGED bi
    /\ UNCHANGED <<creds, bills, bills_processed, total_embeddings, store,
                   otherVars>>

\* one round of the loop of process_bill: a row without storage_path is
\* skipped, else process_document runs and its count is added
ProcessDocument ==
    /\ pc = "doc" /\ di <= Len(documents)
    /\ LET doc == documents[di]
       IN  IF doc.storage_path = P_None
           THEN /\ di' = di + 1
                /\ UNCHANGED <<pc, calls, store, escaped, bill_embeddings>>
           ELSE \E outcome \in DocOutcomes :
                   LET r == process_document(bills[bi], doc.id,
                                             doc.storage_path,
                                             doc.document_type, bill_metadata,
                                             outcome)
                   IN  /\ calls' = calls \o r.calls
                       /\ store' = store \o r.written
                       /\ escaped' = r.raised
                       /\ IF r.raised = "none"
                          THEN /\ bill_embeddings' = bill_embeddings + r.returned
                               /\ di' = di + 1
                               /\ UNCHANGED pc
                          ELSE /\ pc' = "done"
                               /\ UNCHANGED <<di, bill_embeddings>>
    /\ UNCHANGED <<creds, bills, bi, bill_metadata, documents,
                   bills_processed, total_embeddings, all_docs, otherVars>>

\* variant that counts every bill whose documents were gone through
ProcessBillReturn_CountsEveryBill ==
    /\ pc = "doc" /\ di > Len(documents)
    /\ calls' = Append(calls, Returns("process_bill", bills[bi], 0,
                                      bill_embeddings))
    /\ bills_processed' = bills_processed + 1
    /\ total_embeddings' = total_embeddings + bill_embeddings
    /\ bi' = bi + 1
    /\ pc' = "bill"
    /\ UNCHANGED <<creds, bills, bill_metadata, documents, di,
                   bill_embeddings, store, escaped, all_docs, otherVars>>

\* process_bill returns total_embeddings and process_session counts it
ProcessBillReturn ==
    /\ pc = "doc" /\ di > Len(documents)
    /\ calls' = Append(calls, Returns("process_bill", bills[bi], 0,
                                      bill_embeddings))
    /\ bills_processed' =
          IF bill_embeddings > 0 THEN bills_processed + 1 ELSE bills_processed
    /\ total_embeddings' =
          IF bill_embeddings > 0 THEN total_embeddings + bill_embeddings
          ELSE total_embeddings
    /\ bi' = bi + 1
    /\ pc' = "bill"
    /\ UNCHANGED <<creds, bills, bill_metadata, documents, di,
                   bill_embeddings, store, escaped, all_docs, otherVars>>

\* process_session returns bills_processed, total_embeddings
ProcessSessionReturn ==
    /\ pc = "bill" /\ bi > Len(bills)
    /\ pc' = "done"
    /\ UNCHANGED <<all_docs, otherVars, pipeVars>>

NextPipe ==
    \/ Construct
    \/ ProcessSession
    \/ ProcessBill
    \/ ProcessDocument
    \/ ProcessBillReturn
    \/ ProcessSessionReturn

SpecPipe == InitPipe /\ [][NextPipe]_vars


(***************************************************************************)
(* Properties of the pipeline                                              *)
(***************************************************************************)
IsCall(k, c) == calls[k].call = c
SameUnit(j, k) == calls[j].bill = calls[k].bill /\ calls[j].doc = calls[k].doc

\* the rows of the store written for document d of bill b
RowsOf(b, d) ==
    {k \in 1..Len(store) : /\ store[k].metadata.bill_id = b
                           /\ store[k].metadata.document_id = d}
RowsOfBill(b) == {k \in 1..Len(store) : store[k].metadata.bill_id = b}

\* a metadata dictionary without the two fields that belong to one chunk
SharedMetadata(m) == [m EXCEPT !.chunk_index = 0, !.token_count = 0]

\* C13: the records built for one document agree on the bill, session,
\* sponsor, co-sponsor and committee metadata and on document_id,
\* content_type and doc_type; the record at position i has chunk_index i,
\* counted from 0, and the token count of its own text
C13_RecordsOfOneDocument ==
    \A k \in 1..Len(calls) :
       IsCall(k, "add_documents") =>
          LET batch == calls[k].batch
          IN  \A i \in 1..Len(batch) :
                 /\ batch[i].metadata.chunk_index = i - 1
                 /\ batch[i].metadata.token_count =
                       count_tokens(batch[i].page_content)
                 /\ SharedMetadata(batch[i].metadata) =
                       SharedMetadata(batch[1].metadata)
                 /\ batch[i].metadata.bill_id = calls[k].bill
                 /\ batch[i].metadata.document_id = calls[k].doc

\* two records of one document of a bill with sponsors were stored, the
\* second with chunk_index 1
C13_Witness ==
    /\ Len(store) >= 2
    /\ store[1].metadata.document_id = store[2].metadata.document_id
    /\ store[2].metadata.chunk_index = 1
    /\ "primary_sponsor_id" \in DOMAIN store[2].metadata
    /\ store[2].metadata.token_count = PassageTokens

\* C14: no stored record has a metadata field with a null or empty value;
\* a field whose upstream value is absent is left out of the record
C14_NoNullMetadataField ==
    \A k \in 1..Len(store) :
       LET m == store[k].metadata
       IN  /\ m.session_year # None
           /\ m.session_code # None
           /\ "cosponsor_ids" \in DOMAIN m => m.cosponsor_ids # <<>>
           /\ "committee_ids" \in DOMAIN m => m.committee_ids # <<>>

\* the bill was looked up, the document was downloaded
LookedUp(b) ==
    \E k \in 1..Len(calls) :
       IsCall(k, "get_bill_metadata_for_embeddings") /\ calls[k].bill = b
Downloaded(b, d) ==
    \E k \in 1..Len(calls) :
       IsCall(k, "download_from_storage") /\ calls[k].bill = b
       /\ calls[k].doc = d

\* every bill of the session and every selected document was processed, and
\* every batch the store accepted is in the store
AllProcessed ==
    /\ \A i \in 1..Len(bills) : LookedUp(bills[i])
    /\ \A k \in 1..Len(calls) :
          /\ IsCall(k, "get_embeddable_bill_documents") /\ calls[k].ok =>
                \A i \in 1..Len(calls[k].selected) :
                   Downloaded(calls[k].bill, calls[k].selected[i].id)
          /\ IsCall(k, "add_documents") /\ calls[k].ok =>
                Cardinality(RowsOf(calls[k].bill, calls[k].doc)) =
                   Len(calls[k].batch)

\* C15: a failure of embedding or storing one document stays inside
\* process_document: the other selected documents of the bill and the later
\* bills of the session are still processed and stored
C15_StoreFailureIsContained ==
    /\ escaped # "add_documents"
    /\ pc = "done" /\ escaped = "none" => AllProcessed

\* the store refused the first document of bill 1; the second document of
\* bill 1 and a document of bill 2 were stored afterwards
C15_Witness ==
    /\ pc = "done" /\ escaped = "none"
    /\ \E k \in 1..Len(calls) :
          /\ IsCall(k, "add_documents") /\ ~calls[k].ok
          /\ calls[k].bill = 1 /\ calls[k].doc = 11
    /\ RowsOf(1, 11) = {}
    /\ RowsOf(1, 12) # {}
    /\ RowsOfBill(2) # {}

\* C16: no failure of an external collaborator raised while a bill is
\* processed leaves that bill: process_session goes on to every remaining
\* bill of the session
C16_NoFailureEscapesBill ==
    /\ escaped \in {"none", "get_bills_for_session"}
    /\ pc = "done" /\ escaped # "get_bills_for_session" =>
          \A i \in 1..Len(bills) : LookedUp(bills[i])

\* C17: a document whose download, extraction or store write fails
\* returns 0 and leaves no row in the store (extraction failure: no store
\* write at all); a bill whose metadata is not found returns 0 before any
\* document is listed, downloaded, extracted or stored; the store holds
\* only the batches it accepted
C17_FailedUnitWritesNothing ==
    /\ \A k \in 1..Len(calls) :
          /\ ( /\ calls[k].call \in {"download_from_storage",
                                     "extract_text_from_pdf", "add_documents"}
               /\ ~calls[k].ok ) =>
                /\ RowsOf(calls[k].bill, calls[k].doc) = {}
                /\ k < Len(calls)
                /\ calls[k + 1] = Returns("process_document", calls[k].bill,
                                          calls[k].doc, 0)
                /\ ~IsCall(k, "add_documents") =>
                      \A j \in 1..Len(calls) :
                         ~(IsCall(j, "add_documents") /\ SameUnit(j, k))
          /\ ( /\ IsCall(k, "get_bill_metadata_for_embeddings")
               /\ calls[k].ok
               /\ ~calls[k].found ) =>
                /\ RowsOfBill(calls[k].bill) = {}
                /\ k < Len(calls)
                /\ calls[k + 1] = Returns("process_bill", calls[k].bill, 0, 0)
                /\ \A j \in 1..Len(calls) :
                      calls[j].bill = calls[k].bill =>
                         calls[j].call \in {"get_bill_metadata_for_embeddings",
                                            "process_bill"}
    /\ \A r \in 1..Len(store) :
          \E k \in 1..Len(calls) :
             /\ IsCall(k, "add_documents") /\ calls[k].ok
             /\ \E i \in 1..Len(calls[k].batch) : calls[k].batch[i] = store[r]

\* bill 1: one document stored, the extraction of the other failed; the
\* metadata of bill 2 was not found; the store holds only the first batch
C17_Witness ==
    /\ pc = "done" /\ escaped = "none" /\ Len(bills) = 2
    /\ RowsOf(1, 11) # {}
    /\ \E k \in 1..Len(calls) :
          /\ IsCall(k, "extract_text_from_pdf") /\ ~calls[k].ok
          /\ calls[k].bill = 1 /\ calls[k].doc = 12
    /\ \E k \in 1..Len(calls) :
          /\ IsCall(k, "get_bill_metadata_for_embeddings")
          /\ calls[k].ok /\ ~calls[k].found /\ calls[k].bill = 2
    /\ Len(store) = Cardinality(RowsOf(1, 11))
    /\ total_embeddings = Len(store)

\* C18: process_document writes to the store at most once per document, in
\* one call whose batch holds all chunks of the cleaned text in chunk
\* order, and returns the size of that batch when the write succeeds
C18_OneBatchedWritePerDocument ==
    \A k \in 1..Len(calls) :
       IsCall(k, "add_documents") =>
          LET batch == calls[k].batch
              r == chunk_document(clean_legislative_text(calls[k - 1].text),
                                  DEFAULT_TARGET_TOKENS,
                                  DEFAULT_OVERLAP_TOKENS).chunks
          IN  /\ \A j \in 1..Len(calls) :
                    IsCall(j, "add_documents") /\ SameUnit(j, k) => j = k
              /\ IsCall(k - 1, "extract_text_from_pdf")
              /\ Len(batch) = Len(r)
              /\ \A i \in 1..Len(r) :
                    /\ batch[i].page_content = r[i]
                    /\ batch[i].metadata.chunk_index = i - 1
              /\ calls[k].ok =>
                    /\ k < Len(calls)
                    /\ calls[k + 1] = Returns("process_document", calls[k].bill,
                                              calls[k].doc, Len(batch))

\* a document of two chunks was written in one call that returned 2
C18_Witness ==
    \E k \in 1..Len(calls) :
       /\ IsCall(k, "add_documents") /\ calls[k].ok
       /\ Len(calls[k].batch) = 2
       /\ calls[k].batch[2].metadata.doc_type = "legislative_text"
       /\ k < Len(calls) /\ calls[k + 1].value = 2
       /\ Len(store) = 2

\* C19: with a credential missing nothing is done: the constructors raise
\* before any bill is read, any document downloaded or any record written
C19_MissingCredentialIsFatal ==
    ~(creds.supabase /\ creds.openai) =>
        /\ pc \in {"start", "fatal"}
        /\ calls = <<>>
        /\ store = <<>>

\* the embedding API key is missing and the run has ended
C19_Witness ==
    /\ pc = "fatal"
    /\ creds.supabase /\ ~creds.openai
    /\ calls = <<>>

ExternalCalls == {"get_bill_metadata_for_embeddings",
                  "get_embeddable_bill_documents", "download_from_storage",
                  "extract_text_from_pdf", "add_documents"}

\* C20: no external call is repeated: one metadata lookup and one document
\* listing per bill, one download, one extraction and one store write per
\* selected document, whether the call succeeds or fails
C20_NoRetry ==
    \A j \in 1..Len(calls) :
       calls[j].call \in ExternalCalls =>
          \A k \in (j + 1)..Len(calls) :
             ~(calls[k].call = calls[j].call /\ SameUnit(j, k))

\* a run with a failed download and a failed store write has ended
C20_Witness ==
    /\ pc = "done" /\ escaped = "none"
    /\ \E k \in 1..Len(calls) : IsCall(k, "download_from_storage") /\ ~calls[k].ok
    /\ \E k \in 1..Len(calls) : IsCall(k, "add_documents") /\ ~calls[k].ok
    /\ \E k \in 1..Len(calls) : IsCall(k, "add_documents") /\ calls[k].ok


(***************************************************************************)
(* Classifier and section chunker on the same text                         *)
(***************************************************************************)
\* C24: chunk_document tags a text legislative_text exactly when
\* chunk_by_sections finds a section boundary in it, so a text tagged
\* legislative_text never comes back whole through the branch taken when
\* no boundary is found.
C24_ClassifierAgreesWithChunker ==
    pc = "done" =>
        (doc_type = "legislative_text" <=> MarkerStarts(text) # <<>>)


(***************************************************************************)
(* The overlap seed of chunk_by_sentences                                  *)
(***************************************************************************)
\* the longest run of trailing sentences of chunk c whose token counts add
\* up to at most overlap_tokens
LongestSuffixWithin(c) ==
    LET fits == {n \in 0..Len(c) :
                    SumTok(SubSeq(c, Len(c) - n + 1, Len(c)), sentences)
                       <= overlap_tokens}
        n == CHOOSE m \in fits : \A o \in fits : o <= m
    IN  SubSeq(c, Len(c) - n + 1, Len(c))

\* seed was built when chunk prev was emitted and next was started from it
SeedFollows(prev, seed, next) ==
    /\ seed = LongestSuffixWithin(prev)
    /\ seed = <<>> <=> sentences[prev[Len(prev)]] > overlap_tokens
    /\ IsPrefix(seed, next)
    /\ Len(next) > Len(seed)
    /\ next[Len(seed) + 1] = prev[Len(prev)] + 1

\* C25: when a chunk is emitted, the overlap seed is the longest suffix of
\* its sentences whose token counts add up to at most overlap_tokens, in
\* the original order; it is empty exactly when the chunk's last sentence
\* alone exceeds overlap_tokens; the next chunk is the seed followed by the
\* sentence that triggered the flush.
C25_SeedIsLongestSuffix ==
    /\ \A k \in 2..Len(chunks) : SeedFollows(chunks[k - 1], seeds[k], chunks[k])
    /\ (pc = "loop" /\ chunks # <<>>) =>
          SeedFollows(chunks[Len(chunks)], current_seed, current_chunk)

C25_Witness ==
    /\ pc = "loop"
    /\ Len(chunks) >= 1
    /\ Len(current_seed) >= 2
    /\ Len(current_seed) < Len(chunks[Len(chunks)])
    /\ SumTok(current_seed, sentences) = overlap_tokens
    /\ current_chunk = Append(current_seed, idx - 1)


(***************************************************************************)
(* White space in the output of clean_legislative_text                     *)
(***************************************************************************)
\* C26: the cleaned text never holds two consecutive spaces, never holds
\* three or more consecutive newlines, and neither starts nor ends with
\* white space, whatever the raw text.
C26_CleanTextIsNormalised ==
    pc = "cleaned" =>
        /\ \A i \in 1..(Len(clean_text) - 1) :
              ~(clean_text[i] = " " /\ clean_text[i + 1] = " ")
        /\ \A i \in 1..(Len(clean_text) - 2) :
              ~(/\ clean_text[i] = "\n"
                /\ clean_text[i + 1] = "\n"
                /\ clean_text[i + 2] = "\n")
        /\ clean_text # <<>> =>
              /\ ~IsWs(clean_text[1])
              /\ ~IsWs(clean_text[Len(clean_text)])

\* a raw text with a doubled space between two words and a line break
\* at its end
C26_Witness ==
    /\ pc = "cleaned"
    /\ text = <<"w", " ", " ", "w", "\n">>
    /\ clean_text = <<"w", " ", "w">>


(***************************************************************************)
(* Packed chunks of chunk_by_sections                                      *)
(***************************************************************************)
\* C27: a chunk that packs two or more segments totals at most
\* target_tokens (the sum of its segments' token counts), while it is
\* accumulated and when it is emitted; only a chunk of a single segment
\* can total more than target_tokens.
C27_PackedChunkWithinTarget ==
    /\ \A k \in 1..Len(chunks) :
          SumTok(chunks[k], SecTok) > target_tokens => Len(chunks[k]) = 1
    /\ pc = "loop" =>
          /\ current_tokens = SumTok(current_chunk, SecTok)
          /\ current_tokens > target_tokens => Len(current_chunk) = 1

\* two segments packed up to the target exactly, then a single segment
\* between target_tokens and target_tokens * 1.2 emitted on its own
C27_Witness ==
    /\ pc = "done"
    /\ target_tokens = 5
    /\ chunks = << <<1, 2>>, <<3>> >>
    /\ SumTok(chunks[1], SecTok) = 5
    /\ sections[3].tok = 6
    /\ ~Oversized(sections[3].tok, target_tokens)


(***************************************************************************)
(* process_document on an arbitrary extracted text                         *)
(***************************************************************************)
MaxExtractLen == 4

\* the bill and the document row the text belongs to
TextBill == 1
TextDocument == 11

\* an extracted text of up to MaxExtractLen units and the arguments
\* process_document is called with
InitText ==
    /\ pc = "input"
    /\ \E n \in 0..MaxExtractLen :
          \E f \in [1..n -> 1..Len(Units)] :
             text = [i \in 1..n |-> Units[f[i]]]
    /\ target_tokens \in 0..MaxDocTarget
    /\ overlap_tokens \in 0..MaxDocOverlap
    /\ sentences = <<>> /\ sections = <<>>
    /\ idx = 1 /\ current_chunk = <<>> /\ current_tokens = 0
    /\ current_seed = <<>> /\ chunks = <<>> /\ seeds = <<>>
    /\ all_docs = <<>> /\ result = <<>>
    /\ doc_chunks = <<>> /\ doc_type = ""
    /\ CleanIdle /\ PipeIdle

\* process_document from `clean_text = clean_legislative_text(raw_text)`
\* on, the extraction having returned `text`: the text is cleaned,
\* counted, chunked, wrapped into records and written in one
\* add_documents call.  The tokenizer or the write can raise; only the
\* exception of the write is caught
ProcessDocumentText ==
    /\ pc = "input"
    /\ \E outcome \in {"tokenizer_fails", "store_fails", "ok"} :
          LET b == TextBill
              d == TextDocument
              meta == get_bill_metadata_for_embeddings(b, "full")
              r == chunk_document(clean_legislative_text(text),
                                  target_tokens, overlap_tokens)
              docs == BuildDocumentsWith(b, d, T_Introduced, meta, text,
                                         target_tokens, overlap_tokens)
          IN  /\ clean_text' = clean_legislative_text(text)
              /\ IF outcome = "tokenizer_fails"
                 THEN /\ calls' = <<Extract(b, d, TRUE, text)>>
                      /\ escaped' = "count_tokens"
                      /\ UNCHANGED <<doc_chunks, doc_type, store>>
                 ELSE /\ doc_chunks' = r.chunks
                      /\ doc_type' = r.doc_type
                      /\ calls' = <<Extract(b, d, TRUE, text),
                                    AddDocuments(b, d, outcome = "ok", docs),
                                    Returns("process_document", b, d,
                                            IF outcome = "ok" THEN Len(docs)
                                            ELSE 0)>>
                      /\ store' = IF outcome = "ok" THEN docs ELSE <<>>
                      /\ UNCHANGED escaped
    /\ pc' = "stored"
    /\ UNCHANGED <<text, reclean_text, selVars, inVars, argVars, loopVars,
                   creds, bills, bi, bill_metadata, documents, di,
                   bill_embeddings, bills_processed, total_embeddings>>

NextText == ChunkDocument \/ ProcessDocumentText

SpecText == InitText /\ [][NextText]_vars

\* C28: every record process_document writes has a text that is neither
\* empty nor all white space; an extracted text that cleans to the empty
\* string gives no record.
C28_NoBlankRecord ==
    pc = "stored" =>
        \A k \in 1..Len(store) : ~IsBlank(store[k].page_content)

\* C30: for a positive target_tokens chunk_document returns at least one
\* chunk whatever the text, the batch process_document hands to
\* add_documents is never empty, and when the write succeeds
\* process_document returns the size of the batch, which is at least 1.
C30_AtLeastOneChunk ==
    target_tokens > 0 =>
        /\ pc = "done" => Len(doc_chunks) >= 1
        /\ pc = "stored" =>
              \A i \in 1..Len(calls) :
                 calls[i].call = "add_documents" =>
                    /\ Len(calls[i].batch) >= 1
                    /\ Len(calls[i].batch) = Len(doc_chunks)
                    /\ i < Len(calls)
                    /\ calls[i + 1].call = "process_document"
                    /\ calls[i].ok =>
                          /\ calls[i + 1].value = Len(calls[i].batch)
                          /\ calls[i + 1].value >= 1
                          /\ store = calls[i].batch

\* a text that is a single line break, as extracted from a page without
\* text: it cleans to the empty string and still gives one chunk
C30_Witness ==
    /\ pc = "stored"
    /\ target_tokens > 0
    /\ text = <<"\n">>
    /\ clean_text = <<>>
    /\ doc_chunks = << <<>> >>
    /\ Len(calls) = 3
    /\ calls[2].call = "add_documents" /\ calls[2].ok
    /\ Len(calls[2].batch) = 1
    /\ calls[3].value = 1


(***************************************************************************)
(* The counts process_session returns                                      *)
(***************************************************************************)
\* process_session has returned its two counts
SessionReturned ==
    /\ pc = "done" /\ escaped = "none"
    /\ \E k \in 1..Len(calls) : IsCall(k, "get_bills_for_session")

\* C22: when process_session returns, total_embeddings is the number of
\* records written to the store during the call, bills_processed is the
\* number of bills with at least one record written, and bills_processed
\* is at most the number of bills and at most total_embeddings.
C22_ReturnedCountsAreExact ==
    SessionReturned =>
        /\ total_embeddings = Len(store)
        /\ bills_processed =
              Cardinality({i \in 1..Len(bills) : RowsOfBill(bills[i]) # {}})
        /\ bills_processed <= Len(bills)
        /\ bills_processed <= total_embeddings

\* two bills: the first has one document written and one whose write was
\* refused, every write of the second was refused
C22_Witness ==
    /\ SessionReturned
    /\ Len(bills) = 2
    /\ bills_processed = 1
    /\ total_embeddings = 2
    /\ RowsOfBill(1) # {} /\ RowsOfBill(2) = {}
    /\ \E k \in 1..Len(calls) :
          IsCall(k, "add_documents") /\ ~calls[k].ok /\ calls[k].bill = 1
    /\ \E k \in 1..Len(calls) :
          IsCall(k, "add_documents") /\ ~calls[k].ok /\ calls[k].bill = 2


(***************************************************************************)
(* Re-scraping and re-processing: upsert_bill and process_bill on one      *)
(* database.  `bills` holds the rows of table bills, `all_docs` the rows   *)
(* of table bill_documents, `store` the embedding records.  A row gets as  *)
(* its id the position of its insert in `calls`, so that no id is ever     *)
(* given out twice.  The tables bill_sponsors, bill_actions and            *)
(* bill_hearings are left out.                                             *)
(***************************************************************************)
MaxDbCalls == 3

\* the (bill_number, session_id) pairs the scraper comes up with
UpsertKeys == << <<"HB 1", "s1">>, <<"HB 1", "s2">>, <<"HB 2", "s1">> >>

\* what a scrape of a bill page gives: the bill record and selecteddata
Scrapes ==
    << [title |-> "A",
        selecteddata |->
           <<[document_type |-> T_Introduced, storage_path |-> P_Pdf]>>],
       [title |-> "B",
        selecteddata |->
           <<[document_type |-> T_Introduced, storage_path |-> P_Pdf],
             [document_type |-> T_Perfected,
              storage_path |-> P_PdfPerfected]>>] >>

\* how the database calls of one upsert_bill call can end: the select
\* raises, the delete of the document rows raises, the insert of the last
\* document raises (caught, with a warning), or all succeed
UpsertOutcomes == {"select_fails", "delete_fails", "insert_document_fails",
                   "ok"}

\* how the store write of one process_document call can end
RewriteOutcomes == {"store_fails", "ok"}

DbEv(c, b, d, ok, key) == Ev(c, b, d, ok) @@ [key |-> key]

\* .eq('bill_number', ...).eq('session_id', session_id)
KeyRows(tbl, key) ==
    SelectSeq(tbl, LAMBDA r : r.bill_number = key[1] /\ r.session_id = key[2])

\* result of one upsert_bill call
UpsertResult(tbl, dtbl, evs, raised) ==
    [bills |-> tbl, all_docs |-> dtbl, calls |-> evs, raised |-> raised]

\* the `for doc in selecteddata` loop and the return: `first` is the
\* position in `calls` of the event before the first insert
InsertDocuments(tbl, dtbl, evs, first, bill_id, was_updated, key, scrape, outcome) ==
    LET data == scrape.selecteddata
        n == Len(data)
        ok(i) == ~(outcome = "insert_document_fails" /\ i = n)
        rows == [i \in 1..n |->
                    Doc(first + i, data[i].document_type, data[i].storage_path)
                       @@ [bill_id |-> bill_id]]
        inserts == [i \in 1..n |->
                       DbEv("insert_document", bill_id, first + i, ok(i), key)]
        kept == SelectSeq([i \in 1..n |-> i], LAMBDA i : ok(i))
    IN  UpsertResult(tbl,
                     dtbl \o [j \in 1..Len(kept) |-> rows[kept[j]]],
                     evs \o inserts
                         \o <<DbEv("upsert_bill", bill_id, 0, TRUE, key)
                                 @@ [was_updated |-> was_updated]>>,
                     "none")

\* variant that inserts a bill row without looking for an existing one
upsert_bill_AlwaysInserts(tbl, dtbl, base, key, scrape, outcome) ==
    LET select(ok) == DbEv("select_bill", 0, 0, ok, key)
    IN  IF outcome = "select_fails"
        THEN UpsertResult(tbl, dtbl, <<select(FALSE)>>, "select_bill")
        ELSE LET bill_id == base + 2
                 row == [id |-> bill_id, bill_number |-> key[1],
                         session_id |-> key[2], title |-> scrape.title]
             IN  InsertDocuments(Append(tbl, row), dtbl,
                                 <<select(TRUE),
                                   DbEv("insert_bill", bill_id, 0, TRUE, key)>>,
                                 base + 2, bill_id, FALSE, key, scrape, outcome)

\* upsert_bill(session_id, bill_record, selecteddata=...) on the tables
\* tbl (bills) and dtbl (bill_documents), `calls` holding `base` events:
\* the new tables, the database calls made, and the exception that leaves
\* the call
upsert_bill(tbl, dtbl, base, key, scrape, outcome) ==
    LET existing_bill == KeyRows(tbl, key)
        select(ok) == DbEv("select_bill", 0, 0, ok, key)
    IN  IF outcome = "select_fails"
        THEN UpsertResult(tbl, dtbl, <<select(FALSE)>>, "select_bill")
        ELSE IF existing_bill # <<>>
        THEN LET bill_id == existing_bill[1].id
                 updated == [i \in 1..Len(tbl) |->
                                IF tbl[i].id = bill_id
                                THEN [id |-> bill_id, bill_number |-> key[1],
                                      session_id |-> key[2],
                                      title |-> scrape.title]
                                ELSE tbl[i]]
                 others == SelectSeq(dtbl, LAMBDA r : r.bill_id # bill_id)
                 update == DbEv("update_bill", bill_id, 0, TRUE, key)
                 delete(ok) == DbEv("delete_bill_documents", bill_id, 0, ok, key)
             IN  IF outcome = "delete_fails"
                 THEN UpsertResult(updated, dtbl,
                                   <<select(TRUE), update, delete(FALSE)>>,
                                   "delete_bill_documents")
                 ELSE InsertDocuments(updated, others,
                                      <<select(TRUE), update, delete(TRUE)>>,
                                      base + 3, bill_id, TRUE, key, scrape,
                                      outcome)
        ELSE LET bill_id == base + 2
                 row == [id |-> bill_id, bill_number |-> key[1],
                         session_id |-> key[2], title |-> scrape.title]
             IN  InsertDocuments(Append(tbl, row), dtbl,
                                 <<select(TRUE),
                                   DbEv("insert_bill", bill_id, 0, TRUE, key)>>,
                                 base + 2, bill_id, FALSE, key, scrape, outcome)

\* the sum of the numbers of q
RECURSIVE SumSeq(_)
SumSeq(q) == IF q = <<>> THEN 0 ELSE Head(q) + SumSeq(Tail(q))

\* what the loop of process_bill gives when rs[i] is the result of
\* process_document for document i: an exception ends the loop; `before`
\* are the calls made ahead of the loop
LoopResult(before, rs) ==
    LET stop == {i \in 1..Len(rs) : rs[i].raised # "none"}
        last == IF stop = {} THEN Len(rs) ELSE Min(stop)
    IN  DocResult(before \o Flatten([i \in 1..last |-> rs[i].calls]),
                  Flatten([i \in 1..last |-> rs[i].written]),
                  SumSeq([i \in 1..last |-> rs[i].returned]),
                  IF stop = {} THEN "none" ELSE rs[last].raised)

\* the loop of process_bill over `docs`: a row without storage_path is
\* skipped
ProcessDocuments(b, docs, meta, outs, before) ==
    LoopResult(before,
               [i \in 1..Len(docs) |->
                   IF docs[i].storage_path = P_None
                   THEN DocResult(<<>>, <<>>, 0, "none")
                   ELSE process_document(b, docs[i].id, docs[i].storage_path,
                                         docs[i].document_type, meta, outs[i])])

\* `return total_embeddings` at the end of process_bill
ReturnTotal(b, r) ==
    IF r.raised # "none" THEN r
    ELSE [r EXCEPT !.calls =
             Append(@, Returns("process_bill", b, 0, r.returned))]

\* process_bill(bill_id) on the tables tbl and dtbl, the metadata lookup
\* and the document listing succeeding
process_bill(b, tbl, dtbl, outs) ==
    LET row == SelectSeq(tbl, LAMBDA r : r.id = b)
        found == row # <<>>
        lookup == Ev("get_bill_metadata_for_embeddings", b, 0, TRUE)
                     @@ [found |-> found]
    IN  IF ~found
        THEN DocResult(<<lookup, Returns("process_bill", b, 0, 0)>>,
                       <<>>, 0, "none")
        ELSE LET meta == [get_bill_metadata_for_embeddings(b, "full")
                             EXCEPT !.bill_number = row[1].bill_number]
                 selected == get_embeddable_bill_documents(
                                  SelectSeq(dtbl, LAMBDA r : r.bill_id = b))
                 listing == Ev("get_embeddable_bill_documents", b, 0, TRUE)
                               @@ [selected |-> selected]
             IN  ReturnTotal(b, ProcessDocuments(b, selected, meta, outs,
                                                 <<lookup, listing>>))

\* the calls of upsert_bill and process_bill made so far
DbCallsMade ==
    Cardinality({k \in 1..Len(calls) :
                    \/ calls[k].call \in {"upsert_bill", "process_bill"}
                    \/ /\ calls[k].call \in {"select_bill",
                                             "delete_bill_documents"}
                       /\ ~calls[k].ok})

\* an empty database and an empty vector store
InitDb ==
    /\ pc = "db"
    /\ all_docs = <<>> /\ result = <<>>
    /\ sentences = <<>> /\ sections = <<>>
    /\ target_tokens = DEFAULT_TARGET_TOKENS
    /\ overlap_tokens = DEFAULT_OVERLAP_TOKENS
    /\ idx = 1 /\ current_chunk = <<>> /\ current_tokens = 0
    /\ current_seed = <<>> /\ chunks = <<>> /\ seeds = <<>>
    /\ text = <<>> /\ doc_chunks = <<>> /\ doc_type = ""
    /\ CleanIdle /\ PipeIdle

\* the scraper calls upsert_bill
UpsertBill ==
    /\ pc = "db" /\ DbCallsMade < MaxDbCalls
    /\ \E k \in 1..Len(UpsertKeys) : \E s \in 1..Len(Scrapes) :
       \E outcome \in UpsertOutcomes :
          /\ outcome = "delete_fails" => KeyRows(bills, UpsertKeys[k]) # <<>>
          /\ LET r == upsert_bill(bills, all_docs, Len(calls), UpsertKeys[k],
                                  Scrapes[s], outcome)
             IN  /\ bills' = r.bills
                 /\ all_docs' = r.all_docs
                 /\ calls' = calls \o r.calls
                 /\ escaped' = r.raised
    /\ UNCHANGED <<pc, otherVars, creds, bi, bill_metadata,
                   documents, di, bill_embeddings, bills_processed,
                   total_embeddings, store>>

\* variant that drops the bill's earlier records before it writes
ProcessBillCall_ReplacesEarlier ==
    /\ pc = "db" /\ DbCallsMade < MaxDbCalls
    /\ \E i \in 1..Len(bills) :
       \E outs \in [1..2 -> RewriteOutcomes] :
       \E r \in {process_bill(bills[i].id, bills, all_docs, outs)} :
          LET others == SelectSeq(store, LAMBDA e :
                                     e.metadata.bill_id # bills[i].id)
          IN  /\ calls' = calls \o r.calls
              /\ store' = others \o r.written
              /\ escaped' = r.raised
    /\ UNCHANGED <<pc, all_docs, otherVars, creds, bills, bi,
                   bill_metadata, documents, di, bill_embeddings,
                   bills_processed, total_embeddings>>

\* the embeddings pipeline calls process_bill on a bill of the table
ProcessBillCall ==
    /\ pc = "db" /\ DbCallsMade < MaxDbCalls
    /\ \E i \in 1..Len(bills) :
       \E outs \in [1..2 -> RewriteOutcomes] :
       \E r \in {process_bill(bills[i].id, bills, all_docs, outs)} :
          /\ calls' = calls \o r.calls
          /\ store' = store \o r.written
          /\ escaped' = r.raised
    /\ UNCHANGED <<pc, all_docs, otherVars, creds, bills, bi,
                   bill_metadata, documents, di, bill_embeddings,
                   bills_processed, total_embeddings>>

NextDb == UpsertBill \/ ProcessBillCall

SpecDb == InitDb /\ [][NextDb]_vars


(***************************************************************************)
(* Properties of upsert_bill and of re-processing                          *)
(***************************************************************************)
OneRowPerKey ==
    \A i, j \in 1..Len(bills) :
       (/\ bills[i].bill_number = bills[j].bill_number
        /\ bills[i].session_id = bills[j].session_id) => i = j

\* the step is an upsert_bill call that returned: for a pair that had a
\* row it changed that row only and reported TRUE, for a new pair it
\* added one row and reported FALSE
UpsertStepIsExact ==
    (/\ Len(calls') > Len(calls)
     /\ calls'[Len(calls')].call = "upsert_bill") =>
        LET ev == calls'[Len(calls')]
            before == KeyRows(bills, ev.key)
            after == KeyRows(bills', ev.key)
        IN  /\ Len(after) = 1
            /\ after[1].id = ev.bill
            /\ ev.was_updated = (before # <<>>)
            /\ before # <<>> =>
                  /\ Len(bills') = Len(bills)
                  /\ before[1].id = ev.bill
                  /\ \A i \in 1..Len(bills) :
                        IF bills[i].id = ev.bill
                        THEN /\ bills'[i].id = ev.bill
                             /\ bills'[i].bill_number = bills[i].bill_number
                             /\ bills'[i].session_id = bills[i].session_id
                        ELSE bills'[i] = bills[i]
            /\ before = <<>> =>
                  /\ Len(bills') = Len(bills) + 1
                  /\ SubSeq(bills', 1, Len(bills)) = bills
                  /\ \A i \in 1..Len(bills) : bills[i].id # ev.bill

\* C23: after any sequence of upsert_bill calls, one after the other, the
\* table has at most one row for each (bill_number, session_id); a call
\* for a pair that has a row updates that row and reports
\* was_updated = True, a call for a new pair inserts exactly one row and
\* reports False.
C23_AtMostOneRowPerKey ==
    /\ []OneRowPerKey
    /\ [][UpsertStepIsExact]_vars

\* HB 1 of two sessions: two rows, the first re-scraped with a new title
C23_Witness ==
    /\ Len(bills) = 2
    /\ bills[1].bill_number = "HB 1" /\ bills[2].bill_number = "HB 1"
    /\ bills[1].session_id = "s1" /\ bills[2].session_id = "s2"
    /\ bills[1].title = "B"
    /\ DbCallsMade = 3
    /\ calls[Len(calls)].call = "upsert_bill"
    /\ calls[Len(calls)].was_updated
    /\ calls[Len(calls)].bill = bills[1].id

\* C29 as stated: the document_id of every stored embedding record is the
\* id of a row of bill_documents.
C29_NoDanglingDocumentId ==
    \A k \in 1..Len(store) :
       \E i \in 1..Len(all_docs) :
          all_docs[i].id = store[k].metadata.document_id

\* the returns of process_bill for the bill with id b
ProcessReturns(b) ==
    {k \in 1..Len(calls) : IsCall(k, "process_bill") /\ calls[k].bill = b}

\* the metadata lookup the process_bill call that returned at p began with
RunStart(p) ==
    CHOOSE s \in 1..p :
       /\ IsCall(s, "get_bill_metadata_for_embeddings")
       /\ \A k \in (s + 1)..p : ~IsCall(k, "get_bill_metadata_for_embeddings")

\* the records written by the calls lo..hi, in the order of writing
RECURSIVE WrittenIn(_, _)
WrittenIn(lo, hi) ==
    IF lo > hi THEN <<>>
    ELSE (IF IsCall(lo, "add_documents") /\ calls[lo].ok
          THEN calls[lo].batch ELSE <<>>) \o WrittenIn(lo + 1, hi)

\* every external call of the process_bill call that returned at p succeeded
CleanRun(p) == \A k \in RunStart(p)..p : calls[k].ok

\* no upsert_bill call touched bill b between the calls lo and hi
Untouched(b, lo, hi) ==
    \A k \in lo..hi :
       calls[k].bill = b =>
          calls[k].call \notin {"update_bill", "delete_bill_documents",
                                "insert_document", "insert_bill",
                                "upsert_bill"}

SameChunk(r, e) ==
    /\ e.metadata.bill_id = r.metadata.bill_id
    /\ e.metadata.document_id = r.metadata.document_id
    /\ e.metadata.chunk_index = r.metadata.chunk_index

\* two process_bill calls on an unchanged bill write the same records, and
\* after exactly two such calls the store holds each chunk twice
SecondRunRepeatsFirst ==
    \A i \in 1..Len(bills) :
       LET b == bills[i].id
       IN  \A p1, p2 \in ProcessReturns(b) :
              (/\ p1 < p2
               /\ CleanRun(p1) /\ CleanRun(p2)
               /\ Untouched(b, p1, p2)) =>
                 LET first == WrittenIn(RunStart(p1), p1)
                     second == WrittenIn(RunStart(p2), p2)
                 IN  /\ second = first
                     /\ (ProcessReturns(b) = {p1, p2}
                         /\ Untouched(b, RunStart(p1), Len(calls))) =>
                           \A r \in 1..Len(first) :
                              Cardinality({k \in 1..Len(store) :
                                              SameChunk(first[r], store[k])}) = 2

\* C21: re-processing is additive: a second process_bill call on an
\* unchanged bill writes the records of the first call again, no step
\* removes or changes a record already stored, and the store then holds
\* two records for each (bill, document, chunk_index).
C21_ReprocessingIsAdditive ==
    /\ []SecondRunRepeatsFirst
    /\ [][IsPrefix(store, store')]_vars

\* a bill with two versions processed twice: eight records, each chunk
\* of each document twice
C21_Witness ==
    /\ DbCallsMade = 3
    /\ Len(bills) = 1 /\ Len(all_docs) = 2
    /\ Cardinality(ProcessReturns(bills[1].id)) = 2
    /\ \A p \in ProcessReturns(bills[1].id) : CleanRun(p)
    /\ Len(store) = 8
    /\ SubSeq(store, 1, 4) = SubSeq(store, 5, 8)
    /\ store[1].metadata.document_id = all_docs[1].id
    /\ store[4].metadata.document_id = all_docs[2].id

====
